---- MODULE Spec2Model ----
(***************************************************************************)
(* Model of the Komodo additions to zebra:                                 *)
(*   - komodo_create_partial_chain (zebra-chain/src/block/tests/           *)
(*     komodo_generate.rs), the chain builder used to produce test chains  *)
(*     with back-notarisations;                                            *)
(*   - the notary season registry NNDATA (zebra-chain/src/                 *)
(*     komodo_hardfork.rs).                                                *)
(***************************************************************************)
EXTENDS FiniteSets, Integers, Sequences, TLC

(***************************************************************************)
(* Bounds of the model.                                                    *)
(***************************************************************************)
\* largest number of caller-supplied prefix blocks, and largest start_height
MaxStart == 2
\* largest block_count
MaxCount == 3
\* how many transactions the fixup function may reject in one run
MaxRejects == 1

(***************************************************************************)
(* Option values.                                                          *)
(***************************************************************************)
None == [some |-> FALSE]
Some(v) == [some |-> TRUE, val |-> v]

(***************************************************************************)
(* Hashes.  A hash is modelled as the record of what was hashed, so that   *)
(* two hashes are equal exactly when their preimages are.                  *)
(***************************************************************************)
GENESIS_PREVIOUS_BLOCK_HASH == [of |-> "zero"]

\* Block::hash(): the hash of the block header
BlockHash(block) == [of |-> "header", header |-> block.header]

\* Transaction::hash()
TxHash(tx) == [of |-> "tx", inputs |-> tx.inputs, outputs |-> tx.outputs]

\* block.transactions.iter().collect::<Root>()
MerkleRoot(txs) == [of |-> "merkle", leaves |-> [k \in 1..Len(txs) |-> TxHash(txs[k])]]

(***************************************************************************)
(* Scripts and the back-notarisation record carried in a script.           *)
(* A script is a sequence whose first element is a tag byte.               *)
(***************************************************************************)
NotaTag == 106
P2pkTag == 33

P2pkScript(key) == <<P2pkTag, key>>

\* a u32 as its four little-endian bytes, and back.  A u32 from 2^31 on is
\* written as its value minus 2^32 (0 - 1 is u32::MAX), so that it fits the
\* 32-bit integers of TLC; the bytes are those of the u32.
U32LE(n) == <<n % 256, (n \div 256) % 256, (n \div 65536) % 256, (n \div 16777216) % 256>>

FromU32LE(b) ==
    b[1] + 256 * b[2] + 65536 * b[3] + 16777216 * (IF b[4] >= 128 THEN b[4] - 256 ELSE b[4])

\* a faulty zcash_serialize: the trailing payload is not written
NotaSerialize_DropsRest(nota) ==
    <<NotaTag>> \o U32LE(nota.notarised_height) \o <<nota.notarised_block_hash>>

\* BackNotarisationData::zcash_serialize: version tag, target height,
\* target hash (one element), trailing payload
NotaSerialize(nota) ==
    <<NotaTag>> \o U32LE(nota.notarised_height) \o <<nota.notarised_block_hash>> \o nota.rest

\* a faulty zcash_deserialize: the height is read as one byte
NotaDeserialize_OneByteHeight(script) ==
    IF Len(script) >= 6 /\ script[1] = NotaTag
    THEN [ok |-> TRUE,
          nota |-> [notarised_height |-> script[2],
                    notarised_block_hash |-> script[6],
                    rest |-> SubSeq(script, 7, Len(script))]]
    ELSE [ok |-> FALSE]

\* BackNotarisationData::zcash_deserialize: Err when too short or wrong tag
NotaDeserialize(script) ==
    IF Len(script) >= 6 /\ script[1] = NotaTag
    THEN [ok |-> TRUE,
          nota |-> [notarised_height |-> FromU32LE(SubSeq(script, 2, 5)),
                    notarised_block_hash |-> script[6],
                    rest |-> SubSeq(script, 7, Len(script))]]
    ELSE [ok |-> FALSE]

(***************************************************************************)
(* Transactions of the template blocks.                                    *)
(***************************************************************************)
\* u32::MAX, as its four bytes
U32Max == <<255, 255, 255, 255>>

GENESIS_COINBASE_DATA == <<4, 255, 255>>
TmplCoinbaseData == <<1, 126>>
BranchIdBytes == <<84, 69>>

CoinbaseInput(h, data, seq) == [kind |-> "Coinbase", height |-> h, data |-> data, sequence |-> seq]
PrevOutInput(hash, index) == [kind |-> "PrevOut", outpoint |-> [hash |-> hash, index |-> index]]
TxOutput(value, script) == [value |-> value, lock_script |-> script]

ForeignHash(n) == [of |-> "foreign", n |-> n]

TmplCoinbaseTx ==
    [inputs |-> <<CoinbaseInput(127, TmplCoinbaseData, <<0, 0, 0, 0>>)>>,
     outputs |-> <<TxOutput(3, P2pkScript(1))>>]

TmplFundingTx ==
    [inputs |-> <<PrevOutInput(ForeignHash(1), 0)>>,
     outputs |-> <<TxOutput(1, P2pkScript(2)), TxOutput(2, P2pkScript(3))>>]

TmplNotaScript == <<NotaTag>> \o U32LE(100) \o <<ForeignHash(100), 75, 77, 68>>

TmplNotaTx ==
    [inputs |-> <<PrevOutInput(ForeignHash(2), 0), PrevOutInput(ForeignHash(2), 1)>>,
     outputs |-> <<TxOutput(1, P2pkScript(4)), TxOutput(0, TmplNotaScript)>>]

TmplPlainTx ==
    [inputs |-> <<PrevOutInput(ForeignHash(3), 0)>>,
     outputs |-> <<TxOutput(1, P2pkScript(5))>>]

\* a transaction without outputs
TmplNoOutputsTx ==
    [inputs |-> <<PrevOutInput(ForeignHash(5), 0)>>, outputs |-> <<>>]

TmplHeader(tag) ==
    [previous_block_hash |-> ForeignHash(tag), merkle_root |-> ForeignHash(tag + 1),
     time |-> 1000 + tag, rest |-> tag]

\* BLOCK_KMDTESTNET_0000126_BYTES: a block with a coinbase only
BlockCb == [header |-> TmplHeader(126), transactions |-> <<TmplCoinbaseTx>>]

\* BLOCK_KMDTESTNET_0000127_BYTES: a block with a notarisation; the vector
\* itself is not part of the sources, so its shape is drawn from this set
NotaTemplates ==
    { <<TmplCoinbaseTx, TmplFundingTx, TmplNotaTx>>,
      <<TmplCoinbaseTx, TmplFundingTx, TmplNotaTx, TmplPlainTx, TmplNotaTx,
        TmplNoOutputsTx>> }

BlockNota(txs) == [header |-> TmplHeader(127), transactions |-> txs]

(***************************************************************************)
(* Caller-supplied prefix blocks: a linked chain of coinbase-only blocks.  *)
(***************************************************************************)
PrefixTx(k) ==
    [inputs |-> <<CoinbaseInput(k, <<9, k>>, <<0, 0, 0, 0>>)>>,
     outputs |-> <<TxOutput(3, P2pkScript(6))>>]

RECURSIVE PrefixBlock(_)
PrefixBlock(k) ==
    [header |-> [previous_block_hash |->
                     IF k = 0 THEN GENESIS_PREVIOUS_BLOCK_HASH
                     ELSE BlockHash(PrefixBlock(k - 1)),
                 merkle_root |-> MerkleRoot(<<PrefixTx(k)>>),
                 time |-> 500 + 75 * k,
                 rest |-> k],
     transactions |-> <<PrefixTx(k)>>]

StartBlocks(n) == [k \in 1..n |-> PrefixBlock(k - 1)]

\* a prefix whose blocks do not begin with a coinbase input: the first input
\* of the transaction at index 0 spends an output, a coinbase input follows
SpendFirstTx(k) ==
    [inputs |-> <<PrevOutInput(ForeignHash(4), k),
                  CoinbaseInput(k, <<9, k>>, <<0, 0, 0, 0>>)>>,
     outputs |-> <<TxOutput(3, P2pkScript(6))>>]

RECURSIVE SpendFirstBlock(_)
SpendFirstBlock(k) ==
    [header |-> [previous_block_hash |->
                     IF k = 0 THEN GENESIS_PREVIOUS_BLOCK_HASH
                     ELSE BlockHash(SpendFirstBlock(k - 1)),
                 merkle_root |-> MerkleRoot(<<SpendFirstTx(k)>>),
                 time |-> 500 + 75 * k,
                 rest |-> k],
     transactions |-> <<SpendFirstTx(k)>>]

SpendFirstBlocks(n) == [k \in 1..n |-> SpendFirstBlock(k - 1)]

(***************************************************************************)
(* The notary season data (komodo_hardfork.rs).  A public key is modelled  *)
(* by a number: the n-th distinct key of NOTARIES_ELECTED_SOURCE is n, and *)
(* 0 and numbers above NumSourceKeys are keys of no roster.                *)
(***************************************************************************)
NUM_KMD_NOTARIES == 64
NUM_KMD_SEASONS == 7

NOTARIES_ELECTED_SOURCE ==
    <<
      <<1, 2, 3, 4, 5, 6, 7, 8, 9, 10, 11, 12, 13, 14, 15, 16, 17, 18, 19, 20, 21, 22, 23, 24,
        25, 26, 27, 28, 29, 30, 31, 32, 33, 34, 35, 36, 37, 38, 39, 40, 41, 42, 43, 44, 45, 46,
        47, 48, 49, 50, 51, 52, 53, 54, 55, 56, 57, 58, 59, 60, 61, 62, 63, 64>>,
      <<1, 65, 66, 67, 68, 4, 5, 6, 7, 8, 9, 69, 70, 71, 72, 73, 74, 75, 76, 11, 12, 77, 78, 16,
        79, 80, 81, 82, 25, 26, 27, 28, 83, 29, 31, 84, 85, 86, 87, 88, 89, 90, 91, 35, 92, 93,
        94, 95, 96, 45, 97, 98, 99, 100, 50, 51, 101, 102, 103, 104, 105, 106, 107, 62>>,
      <<108, 109, 110, 111, 112, 113, 26, 114, 115, 116, 117, 27, 118, 92, 119, 76, 120, 121,
        67, 122, 123, 31, 124, 35, 125, 126, 127, 75, 128, 129, 130, 131, 132, 133, 25, 134,
        135, 136, 137, 138, 139, 140, 141, 142, 28, 143, 144, 145, 146, 147, 148, 149, 150, 151,
        152, 153, 154, 155, 156, 157, 158, 159, 160, 161>>,
      <<108, 109, 110, 162, 112, 113, 26, 114, 115, 116, 117, 27, 118, 92, 119, 76, 120, 121,
        67, 122, 123, 31, 124, 35, 125, 126, 127, 75, 128, 129, 130, 131, 132, 133, 25, 134,
        135, 136, 137, 138, 139, 140, 141, 142, 28, 143, 144, 145, 146, 147, 148, 149, 150, 151,
        152, 153, 154, 155, 156, 163, 158, 159, 160, 161>>,
      <<151, 158, 164, 165, 166, 167, 168, 169, 170, 171, 172, 28, 161, 26, 173, 174, 175, 176,
        177, 178, 179, 180, 27, 181, 35, 182, 183, 92, 25, 184, 185, 186, 187, 188, 189, 190,
        191, 192, 193, 194, 195, 196, 197, 198, 199, 112, 200, 201, 202, 203, 204, 205, 206,
        207, 208, 209, 210, 211, 212, 213, 214, 215, 216, 67>>,
      <<217, 151, 218, 201, 219, 220, 221, 222, 223, 224, 209, 225, 190, 226, 227, 228, 229,
        158, 230, 231, 180, 232, 233, 234, 235, 236, 237, 238, 239, 240, 241, 242, 243, 187,
        244, 245, 154, 246, 247, 248, 249, 191, 250, 251, 164, 199, 252, 253, 254, 255, 256,
        257, 258, 259, 211, 92, 260, 261, 262, 263, 264, 203, 265, 266>>,
      <<242, 220, 158, 187, 151, 230, 244, 218, 229, 234, 201, 180, 267, 255, 268, 232, 233,
        219, 245, 269, 154, 270, 271, 246, 272, 273, 243, 274, 275, 276, 277, 235, 278, 279,
        224, 211, 92, 280, 260, 191, 281, 282, 225, 283, 284, 263, 285, 286, 264, 190, 240, 287,
        203, 265, 288, 227, 228, 241, 289, 290, 291, 253, 292, 266>>
    >>

\* NNData::init_nn_pubkeys: the keys of every season, decoded
init_nn_pubkeys == NOTARIES_ELECTED_SOURCE

\* a faulty NNData::new: the bounds of the last two seasons are exchanged
NNDataNew_Unordered ==
    [nStakedDecemberHardforkTimestamp |-> 1576840000,
     nDecemberHardforkHeight |-> 1670000,
     nS4Timestamp |-> 1592146800, nS4HardforkHeight |-> 1922000,
     nS5Timestamp |-> 1623682800, nS5HardforkHeight |-> 2437300,
     nS6Timestamp |-> 1656077853, nS6HardforkHeight |-> 2963330,
     KMD_SEASON_TIMESTAMPS |->
        <<1525132800, 1563148800, 1576840000, 1592146800, 1623682800, 1751328000, 1656077853>>,
     KMD_SEASON_HEIGHTS |->
        <<814000, 1444000, 1670000, 1922000, 2437300, 7113400, 2963330>>,
     notaries_elected |-> init_nn_pubkeys]

\* NNData::new
NNDataNew ==
    [nStakedDecemberHardforkTimestamp |-> 1576840000,
     nDecemberHardforkHeight |-> 1670000,
     nS4Timestamp |-> 1592146800, nS4HardforkHeight |-> 1922000,
     nS5Timestamp |-> 1623682800, nS5HardforkHeight |-> 2437300,
     nS6Timestamp |-> 1656077853, nS6HardforkHeight |-> 2963330,
     KMD_SEASON_TIMESTAMPS |->
        <<1525132800, 1563148800, 1576840000, 1592146800, 1623682800, 1656077853, 1751328000>>,
     KMD_SEASON_HEIGHTS |->
        <<814000, 1444000, 1670000, 1922000, 2437300, 2963330, 7113400>>,
     notaries_elected |-> init_nn_pubkeys]

Ok(v) == [ok |-> TRUE, val |-> v]
Err(e) == [ok |-> FALSE, err |-> e]

\* the smallest element of a non-empty set of numbers
Least(S) == CHOOSE x \in S : \A y \in S : x <= y

\* a faulty SeasonIndex: the upper bound of a season is exclusive
SeasonIndex_ExclusiveUpper(bounds, v) ==
    IF v < bounds[1] THEN Some(0)
    ELSE LET hits == {n \in 1..(Len(bounds) - 1) : v < bounds[n + 1] /\ v > bounds[n]}
         IN  IF hits # {} THEN Some(Least(hits)) ELSE None

\* the loop of get_kmd_season and get_ac_season over a table of bounds: the
\* index (0-based) of the first season whose bounds enclose v, if any
SeasonIndex(bounds, v) ==
    IF v <= bounds[1] THEN Some(0)
    ELSE LET hits == {n \in 1..(Len(bounds) - 1) : v <= bounds[n + 1] /\ v > bounds[n]}
         IN  IF hits # {} THEN Some(Least(hits)) ELSE None

\* a faulty get_kmd_season: a height past the last bound gets the last season
get_kmd_season_Clamps(nn, h) ==
    LET found == SeasonIndex(nn.KMD_SEASON_HEIGHTS, h)
    IN  IF found.some THEN Ok(found.val) ELSE Ok(Len(nn.KMD_SEASON_HEIGHTS) - 1)

\* NNData::get_kmd_season: Ok(index of the season) or Err
get_kmd_season(nn, h) ==
    LET found == SeasonIndex(nn.KMD_SEASON_HEIGHTS, h)
    IN  IF found.some THEN Ok(found.val) ELSE Err("NoSeasonForHeight")

\* a faulty get_ac_season: the timestamp is looked up in the table of heights
get_ac_season_ByHeights(nn, timestamp) ==
    LET found == SeasonIndex(nn.KMD_SEASON_HEIGHTS, timestamp)
    IN  IF found.some THEN Ok(found.val) ELSE Err("NoSeasonForTimestamp")

\* NNData::get_ac_season
get_ac_season(nn, timestamp) ==
    LET found == SeasonIndex(nn.KMD_SEASON_TIMESTAMPS, timestamp)
    IN  IF found.some THEN Ok(found.val) ELSE Err("NoSeasonForTimestamp")

\* season.iter().position(|t| t.1 == pk)
Position(season, pk) ==
    LET at == {n \in 1..Len(season) : season[n] = pk}
    IN  IF at # {} THEN Some(Least(at) - 1) ELSE None

\* a faulty komodo_get_notary_id_for_height: the roster of season 0 is
\* searched whatever season covers the height
nn_notary_id_for_height_Season0(nn, h, pk) ==
    LET season == get_kmd_season(nn, h)
    IN  IF season.ok THEN Ok(Position(nn.notaries_elected[1], pk)) ELSE season

\* NNData::komodo_get_notary_id_for_height
nn_notary_id_for_height(nn, h, pk) ==
    LET season == get_kmd_season(nn, h)
    IN  IF season.ok THEN Ok(Position(nn.notaries_elected[season.val + 1], pk)) ELSE season

\* NNData::komodo_get_notary_id_for_timestamp
nn_notary_id_for_timestamp(nn, timestamp, pk) ==
    LET season == get_ac_season(nn, timestamp)
    IN  IF season.ok THEN Ok(Position(nn.notaries_elected[season.val + 1], pk)) ELSE season

\* komodo_utils::parse_p2pk: the key of a canonical pay-to-pubkey script
parse_p2pk(script) ==
    IF Len(script) = 2 /\ script[1] = P2pkTag THEN Some(script[2]) ELSE None

(***************************************************************************)
(* The public functions over the static NNDATA.  `locked` is the result of *)
(* NNDATA.lock(): Some(data), or None when the mutex is poisoned.  Each    *)
(* yields Value(v) when it returns v, and Panicked when it panics.         *)
(***************************************************************************)
Value(v) == [panic |-> FALSE, val |-> v]
Panicked == [panic |-> TRUE]

\* komodo_get_notary_id_for_height (lines 639-646)
komodo_get_notary_id_for_height(locked, h, pk) ==
    IF locked.some THEN Value(nn_notary_id_for_height(locked.val, h, pk))
    ELSE Value(Err("NoNotaryPubkeysInitialised"))

\* komodo_get_notary_id_for_timestamp (lines 649-656)
komodo_get_notary_id_for_timestamp(locked, timestamp, pk) ==
    IF locked.some THEN Value(nn_notary_id_for_timestamp(locked.val, timestamp, pk))
    ELSE Value(Err("NoNotaryPubkeysInitialised"))

\* komodo_is_notary_node_output (lines 660-671)
komodo_is_notary_node_output(locked, h, output) ==
    IF locked.some
    THEN LET pk == parse_p2pk(output.lock_script)
         IN  IF pk.some
             THEN LET id == nn_notary_id_for_height(locked.val, h, pk.val)
                  IN  IF id.ok THEN Value(id.val.some) ELSE Panicked
             ELSE Value(FALSE)
    ELSE Value(FALSE)

\* komodo_is_notary_pubkey (lines 674-682)
komodo_is_notary_pubkey(locked, h, pk) ==
    IF locked.some
    THEN LET id == nn_notary_id_for_height(locked.val, h, pk)
         IN  IF id.ok THEN Value(id.val.some) ELSE Panicked
    ELSE Value(FALSE)

\* komodo_s6_hardfork_height (lines 685-691)
komodo_s6_hardfork_height(locked) ==
    IF locked.some THEN Value(Ok(locked.val.nS6HardforkHeight))
    ELSE Value(Err("NoNotaryPubkeysInitialised"))

\* komodo_s1_hardfork_height (lines 694-700)
komodo_s1_hardfork_height(locked) ==
    IF locked.some THEN Value(Ok(locked.val.nDecemberHardforkHeight))
    ELSE Value(Err("NoNotaryPubkeysInitialised"))

(***************************************************************************)
(* State of one call of komodo_create_partial_chain.                       *)
(***************************************************************************)
VARIABLES
    inp,                \* the arguments, the block 127 template and the build
    vec,                \* Vec<(u32, Block)>: prefix blocks, then the new blocks
    i,                  \* index of the outer loop (0-based, as in the code)
    pc,                 \* "blocks", "txs", "done" or "panic"
    height,             \* vec[i].0
    previous_block,     \* Option<Block>
    previous_block_2,   \* Option<Block>
    tx_1_fixed,         \* Option<Transaction>
    new_transactions,   \* transactions kept for the current block
    drained,            \* what block.transactions.drain(..) still has to yield
    tx_index_in_block,  \* index of the next drained transaction
    chain_value_pools,  \* running value balance
    utxos,              \* running UTXO set (a set of outpoints)
    rejects,            \* how many transactions the fixup function has rejected
    calls,              \* history: every call of fix_generated_transaction
    processed,          \* history: the vec indices the outer loop has visited
    result              \* the returned blocks, once pc = "done"

builderVars ==
    <<inp, vec, i, pc, height, previous_block, previous_block_2, tx_1_fixed,
      new_transactions, drained, tx_index_in_block, chain_value_pools, utxos,
      rejects, calls, processed, result>>

(***************************************************************************)
(* fix_generated_transaction (block::arbitrary), when it accepts: the      *)
(* rewritten transaction and the updated accumulator.                      *)
(***************************************************************************)
SelectedOutPoint(h, idx, k) == [hash |-> [of |-> "selected", height |-> h, index |-> idx], index |-> k]

FixedInputs(tx, idx, h, known_utxos) ==
    [k \in 1..Len(tx.inputs) |->
        IF tx.inputs[k].kind = "Coinbase" THEN tx.inputs[k]
        ELSE IF known_utxos.some
             THEN [kind |-> "PrevOut", outpoint |-> known_utxos.val[k].outpoint]
             ELSE [kind |-> "PrevOut", outpoint |-> SelectedOutPoint(h, idx, k - 1)]]

FixedTx(tx, idx, h, known_utxos) ==
    [inputs |-> FixedInputs(tx, idx, h, known_utxos), outputs |-> tx.outputs]

CreatedOutPoints(tx) == {[hash |-> TxHash(tx), index |-> k - 1] : k \in 1..Len(tx.outputs)}

SpentOutPoints(tx) ==
    {tx.inputs[k].outpoint : k \in {n \in 1..Len(tx.inputs) : tx.inputs[n].kind = "PrevOut"}}

RECURSIVE SumValues(_)
SumValues(outputs) ==
    IF outputs = <<>> THEN 0 ELSE Head(outputs).value + SumValues(Tail(outputs))

fix_generated_transaction(tx, idx, h, parent_time, pools, utxoSet, known_utxos) ==
    LET fixed == FixedTx(tx, idx, h, known_utxos)
    IN  [tx |-> fixed,
         pools |-> IF idx = 0 THEN pools + SumValues(fixed.outputs) ELSE pools,
         utxos |-> (utxoSet \ SpentOutPoints(fixed)) \cup CreatedOutPoints(fixed)]

(***************************************************************************)
(* The pieces of komodo_create_partial_chain.                              *)
(***************************************************************************)
\* lines 43-52: the prefix blocks numbered by position, then the new blocks
BuildVec(start_blocks, start_height, block_count, block_with_nota, tmpl) ==
    [k \in 1..Len(start_blocks) |-> [height |-> k - 1, block |-> start_blocks[k]]]
    \o [k \in 1..block_count |->
          [height |-> start_height + k - 1,
           block |-> IF block_with_nota THEN BlockNota(tmpl) ELSE BlockCb]]

\* line 58: the first index the outer loop visits
LoopStart(start_height) == start_height

\* a faulty PreviousBlock: no predecessor for the block at index 1 either
PreviousBlock_FromIndex2(v, idx) == IF idx > 1 THEN Some(v[idx].block) ELSE None

\* lines 62-66
PreviousBlock(v, idx) == IF idx > 0 THEN Some(v[idx].block) ELSE None

\* a faulty PreviousBlock2: the block one position back
PreviousBlock2_OneBack(v, idx) == IF idx > 0 THEN Some(v[idx].block) ELSE None

\* lines 68-73
PreviousBlock2(v, idx) == IF idx > 1 THEN Some(v[idx - 1].block) ELSE None

\* a faulty FixCoinbase: only the first input is replaced
FixCoinbase_KeepsInputs(tx, h) ==
    IF tx.inputs = <<>> THEN [panic |-> TRUE]
    ELSE IF h # 0 /\ tx.inputs[1].kind # "Coinbase" THEN [panic |-> TRUE]
    ELSE LET data == IF h = 0 THEN GENESIS_COINBASE_DATA
                     ELSE tx.inputs[1].data \o BranchIdBytes
         IN  [panic |-> FALSE,
              tx |-> [tx EXCEPT !.inputs[1] = CoinbaseInput(h, data, U32Max)]]

\* lines 82-96: the coinbase fixup of the transaction at index 0
FixCoinbase(tx, h) ==
    IF tx.inputs = <<>> THEN [panic |-> TRUE]
    ELSE IF h # 0 /\ tx.inputs[1].kind # "Coinbase" THEN [panic |-> TRUE]
    ELSE LET data == IF h = 0 THEN GENESIS_COINBASE_DATA
                     ELSE tx.inputs[1].data \o BranchIdBytes
         IN  [panic |-> FALSE,
              tx |-> [tx EXCEPT !.inputs = <<CoinbaseInput(h, data, U32Max)>>]]

\* a faulty PatchNota: the target hash of the template is kept
PatchNota_KeepsHash(nota, h, prev2) == [nota EXCEPT !.notarised_height = h - 2]

\* line 112-113: the record after the patch
PatchNota(nota, h, prev2) ==
    [nota EXCEPT !.notarised_height = h - 2,
                 !.notarised_block_hash = BlockHash(prev2)]

\* a faulty KnownUtxo: the outpoint keeps the hash of the template
KnownUtxo_TemplateHash(input, tx_1, h) ==
    [outpoint |-> [hash |-> input.outpoint.hash, index |-> input.outpoint.index],
     utxo |-> [output |-> TxOutput(tx_1.outputs[input.outpoint.index + 1].value,
                                   tx_1.outputs[input.outpoint.index + 1].lock_script),
               height |-> h, from_coinbase |-> FALSE, lock_time |-> "unlocked"],
     tx_index_in_block |-> 1]

\* lines 122-131: one known utxo per input, pointing into tx 1 of this block
KnownUtxo(input, tx_1, h) ==
    [outpoint |-> [hash |-> TxHash(tx_1), index |-> input.outpoint.index],
     utxo |-> [output |-> TxOutput(tx_1.outputs[input.outpoint.index + 1].value,
                                   tx_1.outputs[input.outpoint.index + 1].lock_script),
               height |-> h, from_coinbase |-> FALSE, lock_time |-> "unlocked"],
     tx_index_in_block |-> 1]

\* a faulty FixNota: a last output that is not a record stops the build
FixNota_DecodeFailureFatal(tx, idx, h, prev2, tx_1, overflow_checks) ==
    IF idx < 2 \/ tx.outputs = <<>> THEN [panic |-> FALSE, tx |-> tx, known_utxos |-> None]
    ELSE LET last == tx.outputs[Len(tx.outputs)]
             dec == NotaDeserialize(last.lock_script)
         IN  IF ~dec.ok \/ ~prev2.some
             THEN [panic |-> TRUE]
             ELSE LET new_last == [last EXCEPT !.lock_script =
                                      NotaSerialize(PatchNota(dec.nota, h, prev2.val))]
                      patched == [tx EXCEPT !.outputs[Len(tx.outputs)] = new_last]
                  IN  IF h < 2 /\ overflow_checks THEN [panic |-> TRUE]
                      ELSE IF ~tx_1.some THEN [panic |-> TRUE]
                      ELSE IF \E k \in 1..Len(tx.inputs) :
                                  \/ tx.inputs[k].kind # "PrevOut"
                                  \/ tx.inputs[k].outpoint.index >= Len(tx_1.val.outputs)
                           THEN [panic |-> TRUE]
                           ELSE [panic |-> FALSE, tx |-> patched,
                                 known_utxos |-> Some([k \in 1..Len(tx.inputs) |->
                                     KnownUtxo(tx.inputs[k], tx_1.val, h)])]

\* lines 103-137: the notarisation fixup of a transaction at index >= 2.
\* `height - 2` on line 112 is a u32 subtraction: below height 2 it panics
\* in a build with overflow checks and wraps around in a build without.
FixNota(tx, idx, h, prev2, tx_1, overflow_checks) ==
    IF idx < 2 \/ tx.outputs = <<>> THEN [panic |-> FALSE, tx |-> tx, known_utxos |-> None]
    ELSE LET last == tx.outputs[Len(tx.outputs)]
             dec == NotaDeserialize(last.lock_script)
         IN  IF ~dec.ok \/ ~prev2.some
             THEN [panic |-> FALSE, tx |-> tx, known_utxos |-> None]
             ELSE LET new_last == [last EXCEPT !.lock_script =
                                      NotaSerialize(PatchNota(dec.nota, h, prev2.val))]
                      patched == [tx EXCEPT !.outputs[Len(tx.outputs)] = new_last]
                  IN  IF h < 2 /\ overflow_checks THEN [panic |-> TRUE]
                      ELSE IF ~tx_1.some THEN [panic |-> TRUE]
                      ELSE IF \E k \in 1..Len(tx.inputs) :
                                  \/ tx.inputs[k].kind # "PrevOut"
                                  \/ tx.inputs[k].outpoint.index >= Len(tx_1.val.outputs)
                           THEN [panic |-> TRUE]
                           ELSE [panic |-> FALSE, tx |-> patched,
                                 known_utxos |-> Some([k \in 1..Len(tx.inputs) |->
                                     KnownUtxo(tx.inputs[k], tx_1.val, h)])]

\* a faulty ParentTime: never a parent timestamp
ParentTime_Never(prev) == None

\* line 144: the parent timestamp handed to the fixup function
ParentTime(prev) == IF prev.some THEN Some(prev.val.header.time) ELSE None

\* a faulty WithTransactions: the merkle root is not recomputed
WithTransactions_StaleRoot(block, txs) == [block EXCEPT !.transactions = txs]

\* lines 161-165: the final transaction list and its merkle root
WithTransactions(block, txs) ==
    [block EXCEPT !.transactions = txs, !.header.merkle_root = MerkleRoot(txs)]

\* a faulty LinkHeader: the time is set but the previous block hash is left
\* as it is in the template
LinkHeader_KeepsPrevHash(block, h, prev) ==
    IF h > 0
    THEN IF prev.some
         THEN [panic |-> FALSE,
               block |-> [block EXCEPT !.header.time = prev.val.header.time + 60]]
         ELSE [panic |-> TRUE]
    ELSE [panic |-> FALSE, block |-> block]

\* lines 167-179: previous block hash and block time
LinkHeader(block, h, prev) ==
    IF h > 0
    THEN IF prev.some
         THEN [panic |-> FALSE,
               block |-> [block EXCEPT !.header.previous_block_hash = BlockHash(prev.val),
                                       !.header.time = prev.val.header.time + 60]]
         ELSE [panic |-> TRUE]
    ELSE [panic |-> FALSE,
          block |-> [block EXCEPT !.header.previous_block_hash = GENESIS_PREVIOUS_BLOCK_HASH]]

\* a faulty Returned: the prefix blocks are not skipped
Returned_All(v, start_height) == [k \in 1..Len(v) |-> v[k].block]

\* lines 181-186: only the blocks from index start_height on are returned
Returned(v, start_height) ==
    [k \in 1..(IF Len(v) > start_height THEN Len(v) - start_height ELSE 0) |->
        v[start_height + k].block]

(***************************************************************************)
(* The call of komodo_create_partial_chain as a state machine.             *)
(***************************************************************************)
Inputs ==
    {c \in [start_len : 0..MaxStart, start_height : 0..MaxStart,
            block_count : 0..MaxCount, block_with_nota : BOOLEAN,
            tmpl : NotaTemplates, overflow_checks : BOOLEAN,
            prefix : {"coinbase", "spend"}] :
        /\ c.block_with_nota \/ c.tmpl = <<TmplCoinbaseTx, TmplFundingTx, TmplNotaTx>>
        \* the first inputs of the prefix matter only where the loop visits
        \* prefix blocks
        /\ c.prefix = "coinbase"
                \/ (c.start_len > c.start_height /\ ~c.block_with_nota
                        /\ c.overflow_checks)
        \* the build matters only where a block below height 2 has a block two
        \* positions back
        /\ c.overflow_checks \/ (c.start_len > c.start_height /\ c.start_height < 2
                                    /\ c.block_with_nota /\ c.block_count > 0)}

\* the caller's start_blocks
start_blocks ==
    IF inp.prefix = "coinbase" THEN StartBlocks(inp.start_len)
    ELSE SpendFirstBlocks(inp.start_len)

BuilderInit ==
    /\ inp \in Inputs
    /\ vec = BuildVec(start_blocks, inp.start_height, inp.block_count,
                      inp.block_with_nota, inp.tmpl)
    /\ i = LoopStart(inp.start_height)
    /\ pc = "blocks"
    /\ height = 0
    /\ previous_block = None
    /\ previous_block_2 = None
    /\ tx_1_fixed = None
    /\ new_transactions = <<>>
    /\ drained = <<>>
    /\ tx_index_in_block = 0
    /\ chain_value_pools = 0
    /\ utxos = {}
    /\ rejects = 0
    /\ calls = <<>>
    /\ processed = <<>>
    /\ result = <<>>

\* a faulty BlockSlot: from index 1 on, the block before the current one
BlockSlot_Predecessor(idx) == IF idx > 0 THEN idx ELSE 1

\* line 75: `let block = &mut vec[i].1;`, the one entry of the vector that an
\* iteration borrows mutably (the vector of the model is indexed from 1)
BlockSlot(idx) == idx + 1

\* a faulty Tx1FixedReset: the cache of the block before is carried over
Tx1FixedReset_Carried(cached) == cached

\* lines 75-76: `let mut tx_1_fixed = None;` in the body of the outer loop
Tx1FixedReset(cached) == None

\* lines 58-79: the head of one iteration of the outer loop
BeginBlock ==
    /\ pc = "blocks"
    /\ i < Len(vec)
    /\ height' = vec[i + 1].height
    /\ previous_block' = PreviousBlock(vec, i)
    /\ previous_block_2' = PreviousBlock2(vec, i)
    /\ tx_1_fixed' = Tx1FixedReset(tx_1_fixed)
    /\ new_transactions' = <<>>
    /\ drained' = vec[BlockSlot(i)].block.transactions
    /\ vec' = [vec EXCEPT ![BlockSlot(i)].block.transactions = <<>>]
    /\ tx_index_in_block' = 0
    /\ processed' = Append(processed, i)
    /\ pc' = "txs"
    /\ UNCHANGED <<inp, i, chain_value_pools, utxos, rejects, calls, result>>

\* lines 81-137: the transaction as it is handed to the fixup function
Prepared ==
    LET tx == Head(drained)
        cb == IF tx_index_in_block = 0 THEN FixCoinbase(tx, height)
              ELSE [panic |-> FALSE, tx |-> tx]
    IN  IF cb.panic THEN [panic |-> TRUE]
        ELSE FixNota(cb.tx, tx_index_in_block, height, previous_block_2, tx_1_fixed,
                     inp.overflow_checks)

CallRecord(prep, out, pools_out, utxos_out) ==
    [pos |-> i, height |-> height, index |-> tx_index_in_block,
     template |-> Head(drained), tx |-> prep.tx,
     parent_time |-> ParentTime(previous_block),
     known_utxos |-> prep.known_utxos, out |-> out,
     pools_in |-> chain_value_pools, utxos_in |-> utxos,
     pools_out |-> pools_out, utxos_out |-> utxos_out]

\* a panic: of the coinbase or notarisation fixup (lines 87, 120, 125, 127),
\* or the failed assertion "could not fix previous_block_hash" (line 174)
Panic ==
    /\ pc = "txs"
    /\ IF drained # <<>>
       THEN Prepared.panic
       ELSE LinkHeader(WithTransactions(vec[BlockSlot(i)].block, new_transactions),
                       height, previous_block).panic
    /\ pc' = "panic"
    /\ UNCHANGED <<inp, vec, i, height, previous_block, previous_block_2, tx_1_fixed,
                   new_transactions, drained, tx_index_in_block, chain_value_pools,
                   utxos, rejects, calls, processed, result>>

\* lines 139-155: the fixup function returns Some(fixed_transaction)
FixupAccepts ==
    /\ pc = "txs"
    /\ drained # <<>>
    /\ ~Prepared.panic
    /\ LET prep == Prepared
           fix == fix_generated_transaction(prep.tx, tx_index_in_block, height,
                      ParentTime(previous_block), chain_value_pools, utxos,
                      prep.known_utxos)
       IN  /\ chain_value_pools' = fix.pools
           /\ utxos' = fix.utxos
           /\ tx_1_fixed' = IF tx_index_in_block = 1 THEN Some(fix.tx) ELSE tx_1_fixed
           /\ new_transactions' = Append(new_transactions, fix.tx)
           /\ calls' = Append(calls, CallRecord(prep, Some(fix.tx), fix.pools, fix.utxos))
    /\ drained' = Tail(drained)
    /\ tx_index_in_block' = tx_index_in_block + 1
    /\ UNCHANGED <<inp, vec, i, pc, height, previous_block, previous_block_2, rejects,
                   processed, result>>

\* lines 156-158: the fixup function returns None
FixupRejects ==
    /\ pc = "txs"
    /\ drained # <<>>
    /\ ~Prepared.panic
    /\ rejects < MaxRejects
    /\ rejects' = rejects + 1
    /\ calls' = Append(calls, CallRecord(Prepared, None, chain_value_pools, utxos))
    /\ drained' = Tail(drained)
    /\ tx_index_in_block' = tx_index_in_block + 1
    /\ UNCHANGED <<inp, vec, i, pc, height, previous_block, previous_block_2, tx_1_fixed,
                   new_transactions, chain_value_pools, utxos, processed, result>>

\* lines 161-179, when the header can be linked
EndBlock ==
    /\ pc = "txs"
    /\ drained = <<>>
    /\ LET lk == LinkHeader(WithTransactions(vec[BlockSlot(i)].block, new_transactions),
                            height, previous_block)
       IN  /\ ~lk.panic
           /\ vec' = [vec EXCEPT ![BlockSlot(i)].block = lk.block]
    /\ i' = i + 1
    /\ pc' = "blocks"
    /\ UNCHANGED <<inp, height, previous_block, previous_block_2, tx_1_fixed,
                   new_transactions, drained, tx_index_in_block, chain_value_pools,
                   utxos, rejects, calls, processed, result>>

\* lines 181-186: the loop is over, the new blocks are returned
Return ==
    /\ pc = "blocks"
    /\ i >= Len(vec)
    /\ result' = Returned(vec, inp.start_height)
    /\ pc' = "done"
    /\ UNCHANGED <<inp, vec, i, height, previous_block, previous_block_2, tx_1_fixed,
                   new_transactions, drained, tx_index_in_block, chain_value_pools,
                   utxos, rejects, calls, processed>>

(***************************************************************************)
(* The registry as a state machine: one caller at a time calls a public    *)
(* function, or locks NNDATA and calls a method of NNData as the tests do. *)
(***************************************************************************)
VARIABLES
    nndata,     \* the lazily built static: None until the first access
    poisoned,   \* whether the mutex of NNDATA is poisoned
    once,       \* the Once of the lazy static: "incomplete", "running", "complete"
    proc,       \* "running", or "aborted" when a panic has ended the process
    last        \* history: the last call, its arguments and its outcome

regVars == <<nndata, poisoned, once, proc, last>>

\* how far from a season bound the sampled heights and timestamps reach
MaxBeyond == 1

Near(b) == (b - MaxBeyond)..(b + MaxBeyond)

Bounds(table) == {table[n] : n \in 1..Len(table)}

Samples(table) == {0, 2147483646 + 1} \cup UNION {Near(b) : b \in Bounds(table)}

SampleHeights == Samples(NNDataNew.KMD_SEASON_HEIGHTS)

SampleTimestamps == Samples(NNDataNew.KMD_SEASON_TIMESTAMPS)

\* a key of no roster, a key of the first two rosters, the first key of the
\* table and the last key of the last roster
SampleKeys == {0, 5, NOTARIES_ELECTED_SOURCE[1][1], NOTARIES_ELECTED_SOURCE[NUM_KMD_SEASONS][NUM_KMD_NOTARIES]}

SampleOutputs ==
    {TxOutput(1, P2pkScript(k)) : k \in SampleKeys}
    \cup {TxOutput(0, TmplNotaScript), TxOutput(1, <<P2pkTag>>)}

RegistryInit ==
    /\ nndata = None
    /\ poisoned = FALSE
    /\ once = "incomplete"
    /\ proc = "running"
    /\ last = [op |-> "none"]

\* Deref of the lazy static: NNData::new() runs on the first access
Static == IF nndata.some THEN nndata.val ELSE NNDataNew

\* NNDATA.lock()
Lock == IF poisoned THEN None ELSE Some(Static)

\* the end of a call: a panic while the guard is held either unwinds and
\* poisons the mutex, or aborts the process, depending on the build
Finish(op, arg, outcome, unwinds) ==
    /\ nndata' = Some(Static)
    /\ once' = "complete"
    /\ last' = [op |-> op, arg |-> arg, locked |-> ~poisoned, outcome |-> outcome]
    /\ poisoned' = (poisoned \/ (outcome.panic /\ unwinds))
    /\ proc' = IF outcome.panic /\ ~unwinds THEN "aborted" ELSE proc

\* a caller locks NNDATA and calls get_kmd_season (as lines 714-720 do)
CallGetKmdSeason ==
    /\ proc = "running" /\ ~poisoned
    /\ \E h \in SampleHeights :
          Finish("get_kmd_season", [height |-> h], Value(get_kmd_season(Static, h)), TRUE)

\* a caller locks NNDATA and calls get_ac_season
CallGetAcSeason ==
    /\ proc = "running" /\ ~poisoned
    /\ \E t \in SampleTimestamps :
          Finish("get_ac_season", [timestamp |-> t], Value(get_ac_season(Static, t)), TRUE)

\* a caller locks NNDATA and calls the method of NNData (as lines 708-714 do)
CallNnNotaryIdForHeight ==
    /\ proc = "running" /\ ~poisoned
    /\ \E h \in SampleHeights, pk \in SampleKeys :
          Finish("NNData::komodo_get_notary_id_for_height", [height |-> h, pk |-> pk],
                 Value(nn_notary_id_for_height(Static, h, pk)), TRUE)

\* a caller locks NNDATA and calls the method of NNData (as lines 738-750 do)
CallNnNotaryIdForTimestamp ==
    /\ proc = "running" /\ ~poisoned
    /\ \E t \in SampleTimestamps, pk \in SampleKeys :
          Finish("NNData::komodo_get_notary_id_for_timestamp", [timestamp |-> t, pk |-> pk],
                 Value(nn_notary_id_for_timestamp(Static, t, pk)), TRUE)

CallNotaryIdForHeight ==
    /\ proc = "running"
    /\ \E h \in SampleHeights, pk \in SampleKeys :
          Finish("komodo_get_notary_id_for_height", [height |-> h, pk |-> pk],
                 komodo_get_notary_id_for_height(Lock, h, pk), TRUE)

CallNotaryIdForTimestamp ==
    /\ proc = "running"
    /\ \E t \in SampleTimestamps, pk \in SampleKeys :
          Finish("komodo_get_notary_id_for_timestamp", [timestamp |-> t, pk |-> pk],
                 komodo_get_notary_id_for_timestamp(Lock, t, pk), TRUE)

CallIsNotaryNodeOutput ==
    /\ proc = "running"
    /\ \E h \in SampleHeights, output \in SampleOutputs, unwinds \in BOOLEAN :
          Finish("komodo_is_notary_node_output", [height |-> h, output |-> output],
                 komodo_is_notary_node_output(Lock, h, output), unwinds)

CallIsNotaryPubkey ==
    /\ proc = "running"
    /\ \E h \in SampleHeights, pk \in SampleKeys, unwinds \in BOOLEAN :
          Finish("komodo_is_notary_pubkey", [height |-> h, pk |-> pk],
                 komodo_is_notary_pubkey(Lock, h, pk), unwinds)

CallS6HardforkHeight ==
    /\ proc = "running"
    /\ Finish("komodo_s6_hardfork_height", [none |-> TRUE], komodo_s6_hardfork_height(Lock), TRUE)

CallS1HardforkHeight ==
    /\ proc = "running"
    /\ Finish("komodo_s1_hardfork_height", [none |-> TRUE], komodo_s1_hardfork_height(Lock), TRUE)

(***************************************************************************)
(* The first accesses of NNDATA by several threads.  Each thread           *)
(* dereferences the lazy static, which goes through its Once, then locks   *)
(* the mutex and reads the season table.                                   *)
(***************************************************************************)
VARIABLES
    tpc,        \* per thread: "start", "init", "wait", "ready", "locked", "done"
    partial,    \* the rosters NNData::new has converted so far
    new_runs,   \* history: how many times NNData::new was entered
    holder,     \* the thread that holds the mutex of NNDATA, 0 when free
    seen,       \* history: per thread, what it read under the guard
    cpc,        \* per thread, its call of a public function: "idle", "lock",
                \* "held", "returned" or "panicked"
    cres,       \* per thread: how its call ends, "none" before the first
    ccalls      \* history: per thread, how many calls it has begun

thrVars == <<tpc, partial, new_runs, holder, seen, cpc, cres, ccalls>>

\* how many threads make their first access concurrently
MaxThreads == 3

Threads == 1..MaxThreads

\* how many threads call the public functions concurrently
MaxCallers == 2

Callers == 1..MaxCallers

ThreadsInit ==
    /\ tpc = [t \in Threads |-> "start"]
    /\ partial = <<>>
    /\ new_runs = 0
    /\ holder = 0
    /\ seen = [t \in Threads |-> None]
    /\ cpc = [t \in Callers |-> "idle"]
    /\ cres = [t \in Callers |-> "none"]
    /\ ccalls = [t \in Callers |-> 0]

\* a faulty Once: a thread that finds the initialiser running does not wait
OnceEnter_NoWait(state) ==
    CASE state = "incomplete" -> "init"
      [] state = "running" -> "ready"
      [] state = "complete" -> "ready"

\* Once::call_once as the deref of the lazy static uses it: the first
\* thread runs the initialiser, a thread that finds it running waits, a
\* thread that finds it complete goes on
OnceEnter(state) ==
    CASE state = "incomplete" -> "init"
      [] state = "running" -> "wait"
      [] state = "complete" -> "ready"

\* line 17: a thread dereferences NNDATA
Deref(t) ==
    /\ tpc[t] = "start"
    /\ tpc' = [tpc EXCEPT ![t] = OnceEnter(once)]
    /\ once' = IF once = "incomplete" THEN "running" ELSE once
    /\ new_runs' = IF OnceEnter(once) = "init" THEN new_runs + 1 ELSE new_runs
    /\ UNCHANGED <<nndata, poisoned, proc, last, partial, holder, seen, cpc, cres, ccalls>>

\* lines 572-580: NNData::new converts the roster of one more season
BuildSeason(t) ==
    /\ tpc[t] = "init"
    /\ Len(partial) < Len(NOTARIES_ELECTED_SOURCE)
    /\ partial' = Append(partial, init_nn_pubkeys[Len(partial) + 1])
    /\ UNCHANGED <<nndata, poisoned, once, proc, last, tpc, new_runs, holder, seen, cpc, cres, ccalls>>

\* lines 558-565 and line 17: the assertion on the sizes holds, the value is
\* stored in the static and the Once completes
FinishInit(t) ==
    /\ tpc[t] = "init"
    /\ Len(partial) = Len(NOTARIES_ELECTED_SOURCE)
    /\ Len(partial) = NUM_KMD_SEASONS
    /\ nndata' = Some([NNDataNew EXCEPT !.notaries_elected = partial])
    /\ once' = "complete"
    /\ tpc' = [tpc EXCEPT ![t] = "ready"]
    /\ UNCHANGED <<poisoned, proc, last, partial, new_runs, holder, seen, cpc, cres, ccalls>>

\* a waiting thread goes on when the Once is complete
Wake(t) ==
    /\ tpc[t] = "wait"
    /\ once = "complete"
    /\ tpc' = [tpc EXCEPT ![t] = "ready"]
    /\ UNCHANGED <<nndata, poisoned, once, proc, last, partial, new_runs, holder, seen, cpc, cres, ccalls>>

\* NNDATA.lock() of a thread: it blocks while another thread holds the guard
LockGuard(t) ==
    /\ tpc[t] = "ready"
    /\ holder = 0
    /\ holder' = t
    /\ tpc' = [tpc EXCEPT ![t] = "locked"]
    /\ UNCHANGED <<nndata, poisoned, once, proc, last, partial, new_runs, seen, cpc, cres, ccalls>>

\* the thread reads the table under the guard and drops the guard
ReadAndUnlock(t) ==
    /\ tpc[t] = "locked"
    /\ seen' = [seen EXCEPT ![t] = Some(nndata)]
    /\ holder' = 0
    /\ tpc' = [tpc EXCEPT ![t] = "done"]
    /\ UNCHANGED <<nndata, poisoned, once, proc, last, partial, new_runs, cpc, cres, ccalls>>

(***************************************************************************)
(* The codec of the back-notarisation record on its own: a record is       *)
(* serialised and the bytes are deserialised again.                        *)
(***************************************************************************)
VARIABLES
    codec_pc,       \* "record", "bytes" or "decoded"
    codec_rec,      \* the record
    codec_bytes,    \* its serialisation
    codec_dec       \* the result of deserialising codec_bytes

codecVars == <<codec_pc, codec_rec, codec_bytes, codec_dec>>

\* longest trailing payload of the sampled records
MaxRest == 2

RECURSIVE SeqsUpTo(_, _)
SeqsUpTo(S, n) ==
    IF n = 0 THEN {<<>>}
    ELSE LET shorter == SeqsUpTo(S, n - 1)
         IN  shorter \cup {Append(q, x) : q \in shorter, x \in S}

\* target heights with every byte of the u32 in use, up to the largest Height
SampleNotaHeights == {0, 2, 255, 256, 65536, 16777216 + 256 + 1, 2147483646 + 1}

ValidRecords ==
    [notarised_height : SampleNotaHeights,
     notarised_block_hash : {GENESIS_PREVIOUS_BLOCK_HASH, ForeignHash(100)},
     rest : SeqsUpTo({0, NotaTag}, MaxRest)]

CodecIdle ==
    /\ codec_pc = "record"
    /\ codec_bytes = <<>>
    /\ codec_dec = [ok |-> FALSE]

CodecInit == CodecIdle /\ codec_rec \in ValidRecords

\* the codec at rest, for the other specifications
NoCodec == CodecIdle /\ codec_rec = NotaDeserialize(TmplNotaScript).nota

Encode ==
    /\ codec_pc = "record"
    /\ codec_bytes' = NotaSerialize(codec_rec)
    /\ codec_pc' = "bytes"
    /\ UNCHANGED <<codec_rec, codec_dec>>

Decode ==
    /\ codec_pc = "bytes"
    /\ codec_dec' = NotaDeserialize(codec_bytes)
    /\ codec_pc' = "decoded"
    /\ UNCHANGED <<codec_rec, codec_bytes>>

(***************************************************************************)
(* The address book updater: the worker of AddressBookUpdater::spawn and   *)
(* the senders of its channel.                                             *)
(***************************************************************************)
VARIABLES
    senders,        \* how many senders of the channel are open
    chan,           \* the events buffered in the channel, oldest first
    sent,           \* history: the events sent so far, in order
    wpc,            \* the worker: "recv", "address_book", "address_book_locked",
                    \* "peer_stats", "peer_stats_locked", "stopped"
    event,          \* the event the worker is applying
    address_book,   \* the events applied to the address book, in order
    peer_stats,     \* the events applied to the peer statistics, in order
    wresult,        \* what the worker returned
    ab_mutex,       \* who holds the mutex of the address book: "free", "worker", "other"
    ps_mutex,       \* who holds the mutex of the peer statistics
    opc             \* another thread that locks both mutexes: the order it takes
                    \* them in and how many it holds

updVars == <<senders, chan, sent, wpc, event, address_book, peer_stats, wresult,
            ab_mutex, ps_mutex, opc>>

\* config.peerset_total_connection_limit(), the capacity of the channel
MaxCapacity == 2

\* how many events are sent, and how many senders are open at a time
MaxEvents == 4
MaxSenders == 3

\* line 53-69: the channel with its one sender, the empty address book and
\* peer statistics, the worker about to receive
UpdaterInit ==
    /\ senders = 1
    /\ chan = <<>>
    /\ sent = <<>>
    /\ wpc = "recv"
    /\ event = None
    /\ address_book = <<>>
    /\ peer_stats = <<>>
    /\ wresult = None
    /\ ab_mutex = "free"
    /\ ps_mutex = "free"
    /\ opc = [order |-> "none", held |-> 0]

\* a faulty blocking_recv: it gives up as soon as the channel is empty
blocking_recv_NoWait(queue, open) ==
    IF queue # <<>> THEN [ready |-> TRUE, item |-> Some(Head(queue))]
    ELSE [ready |-> TRUE, item |-> None]

\* a faulty blocking_recv: it yields the newest buffered event
blocking_recv_Newest(queue, open) ==
    IF queue # <<>> THEN [ready |-> TRUE, item |-> Some(queue[Len(queue)])]
    ELSE IF open = 0 THEN [ready |-> TRUE, item |-> None]
    ELSE [ready |-> FALSE]

\* mpsc::Receiver::blocking_recv: the oldest buffered event; None once the
\* channel is empty and every sender is closed; otherwise it blocks
blocking_recv(queue, open) ==
    IF queue # <<>> THEN [ready |-> TRUE, item |-> Some(Head(queue))]
    ELSE IF open = 0 THEN [ready |-> TRUE, item |-> None]
    ELSE [ready |-> FALSE]

\* the owner of a sender sends an event; it waits while the channel is full
SendEvent ==
    /\ senders > 0
    /\ Len(chan) < MaxCapacity
    /\ Len(sent) < MaxEvents
    /\ chan' = Append(chan, Len(sent) + 1)
    /\ sent' = Append(sent, Len(sent) + 1)
    /\ UNCHANGED <<senders, wpc, event, address_book, peer_stats, wresult, ab_mutex, ps_mutex, opc>>

CloneSender ==
    /\ senders > 0
    /\ senders < MaxSenders
    /\ senders' = senders + 1
    /\ UNCHANGED <<chan, sent, wpc, event, address_book, peer_stats, wresult,
                   ab_mutex, ps_mutex, opc>>

DropSender ==
    /\ senders > 0
    /\ senders' = senders - 1
    /\ UNCHANGED <<chan, sent, wpc, event, address_book, peer_stats, wresult,
                   ab_mutex, ps_mutex, opc>>

\* line 74: blocking_recv yields an event
Recv ==
    /\ wpc = "recv"
    /\ blocking_recv(chan, senders).ready
    /\ blocking_recv(chan, senders).item.some
    /\ event' = blocking_recv(chan, senders).item
    /\ chan' = Tail(chan)
    /\ wpc' = "address_book"
    /\ UNCHANGED <<senders, sent, address_book, peer_stats, wresult, ab_mutex, ps_mutex, opc>>

\* a faulty DropTemporary: the guard outlives the statement
DropTemporary_Kept(owner) == owner

\* lines 84 and 90: the guard is a temporary of the statement, dropped at
\* its end, which unlocks the mutex
DropTemporary(owner) == "free"

\* line 82: worker_address_book.lock(), which blocks while the mutex is held
LockAddressBook ==
    /\ wpc = "address_book"
    /\ ab_mutex = "free"
    /\ ab_mutex' = "worker"
    /\ wpc' = "address_book_locked"
    /\ UNCHANGED <<senders, chan, sent, event, address_book, peer_stats, wresult,
                   ps_mutex, opc>>

\* lines 83-84: update the address book under the guard, drop the guard
UpdateAddressBook ==
    /\ wpc = "address_book_locked"
    /\ address_book' = Append(address_book, event.val)
    /\ ab_mutex' = DropTemporary(ab_mutex)
    /\ wpc' = "peer_stats"
    /\ UNCHANGED <<senders, chan, sent, event, peer_stats, wresult, ps_mutex, opc>>

\* line 88: worker_peer_stats.lock()
LockPeerStats ==
    /\ wpc = "peer_stats"
    /\ ps_mutex = "free"
    /\ ps_mutex' = "worker"
    /\ wpc' = "peer_stats_locked"
    /\ UNCHANGED <<senders, chan, sent, event, address_book, peer_stats, wresult,
                   ab_mutex, opc>>

\* lines 89-90: update the peer statistics under the guard, drop the guard
UpdatePeerStats ==
    /\ wpc = "peer_stats_locked"
    /\ peer_stats' = Append(peer_stats, event.val)
    /\ ps_mutex' = DropTemporary(ps_mutex)
    /\ event' = None
    /\ wpc' = "recv"
    /\ UNCHANGED <<senders, chan, sent, address_book, wresult, ab_mutex, opc>>

\* another thread with clones of the two Arcs (lines 104-106 hand them out)
\* locks the first mutex of the order it takes them in
OtherLockFirst ==
    /\ opc.held = 0
    /\ \E order \in {"address_book_first", "peer_stats_first"} :
          /\ IF order = "address_book_first"
             THEN ab_mutex = "free" /\ ab_mutex' = "other" /\ UNCHANGED ps_mutex
             ELSE ps_mutex = "free" /\ ps_mutex' = "other" /\ UNCHANGED ab_mutex
          /\ opc' = [order |-> order, held |-> 1]
    /\ UNCHANGED <<senders, chan, sent, wpc, event, address_book, peer_stats, wresult>>

\* it locks the second mutex while it holds the first
OtherLockSecond ==
    /\ opc.held = 1
    /\ IF opc.order = "address_book_first"
       THEN ps_mutex = "free" /\ ps_mutex' = "other" /\ UNCHANGED ab_mutex
       ELSE ab_mutex = "free" /\ ab_mutex' = "other" /\ UNCHANGED ps_mutex
    /\ opc' = [opc EXCEPT !.held = 2]
    /\ UNCHANGED <<senders, chan, sent, wpc, event, address_book, peer_stats, wresult>>

\* it drops both guards
OtherUnlock ==
    /\ opc.held = 2
    /\ ab_mutex' = "free"
    /\ ps_mutex' = "free"
    /\ opc' = [order |-> "none", held |-> 0]
    /\ UNCHANGED <<senders, chan, sent, wpc, event, address_book, peer_stats, wresult>>

\* lines 74 and 93-95: blocking_recv yields None, the worker returns the error
Stop ==
    /\ wpc = "recv"
    /\ blocking_recv(chan, senders).ready
    /\ ~blocking_recv(chan, senders).item.some
    /\ wresult' = Some(Err("AllAddressBookUpdaterSendersClosed"))
    /\ wpc' = "stopped"
    /\ UNCHANGED <<senders, chan, sent, event, address_book, peer_stats, ab_mutex, ps_mutex, opc>>

(***************************************************************************)
(* The state reads of zebra-state/src/service/read/block.rs: a query is    *)
(* answered from the non-finalized chain the caller holds, if any, and     *)
(* from the finalized database otherwise.                                  *)
(***************************************************************************)
VARIABLES
    nf,             \* the caller's Option<C>: a non-finalized chain, or None
    fin,            \* the finalized database
    rd,             \* the last read: its operation, argument and result
    live,           \* the state service's latest non-finalized chain
    svc,            \* the state service's next step of a finalization
    rpc,            \* the concurrent reader's position
    rq              \* the concurrent reader's query, as of its snapshot

readVars == <<nf, fin, rd, live, svc, rpc, rq>>

\* the best chain has the heights 0 .. MaxReadHeight
MaxReadHeight == 2

\* the outpoints of the queries are 1 .. MaxOutpoints
MaxOutpoints == 1

ReadHeader(h) == [time |-> 500 + 75 * h, previous |-> h - 1]

ReadBlock(h) == [header |-> ReadHeader(h), transactions |-> <<h>>]

ReadHash(h) == BlockHash(ReadBlock(h))

HeightQuery(h) == [kind |-> "Height", height |-> h]

HashQuery(x) == [kind |-> "Hash", hash |-> x]

ReadUtxo(o) == [output |-> [value |-> o, lock_script |-> <<o>>],
                height |-> 0, from_coinbase |-> FALSE]

\* the heights of a set of heights that a query names
Named(heights, hash_or_height) ==
    IF hash_or_height.kind = "Height"
    THEN heights \cap {hash_or_height.height}
    ELSE {h \in heights : ReadHash(h) = hash_or_height.hash}

\* Chain::block: the contextually valid block of the chain for a query
chain_block(chain, hash_or_height) ==
    LET found == Named(chain.lo .. chain.hi, hash_or_height)
    IN  IF found = {} THEN None
        ELSE LET h == CHOOSE x \in found : TRUE
             IN  Some([block |-> ReadBlock(h), hash |-> ReadHash(h), height |-> h])

\* ZebraDb::block_header: the header stored for a query
db_block_header(db, hash_or_height) ==
    LET found == Named(0 .. db.tip - 1, hash_or_height)
    IN  IF found = {} THEN None
        ELSE Some(ReadHeader(CHOOSE x \in found : TRUE))

\* ZebraDb::block: the stored header and the transactions stored with it
db_block(db, hash_or_height) ==
    LET found == Named(0 .. db.tip - 1, hash_or_height)
    IN  IF found = {} THEN None
        ELSE Some(ReadBlock(CHOOSE x \in found : TRUE))

\* Chain::created_utxo
created_utxo(chain, outpoint) ==
    IF outpoint \in chain.created THEN Some(ReadUtxo(outpoint)) ELSE None

\* ZebraDb::utxo: the ordered UTXO of an outpoint that is unspent in the
\* finalized state
db_utxo(db, outpoint) ==
    IF outpoint \in db.unspent
    THEN Some([utxo |-> ReadUtxo(outpoint), tx_index_in_block |-> 0])
    ELSE None

read_block_ChainOnly(chain, db, hash_or_height) ==
    LET in_chain == IF chain.some THEN chain_block(chain.val, hash_or_height)
                    ELSE None
    IN  IF in_chain.some THEN Some(in_chain.val.block) ELSE None

\* lines 17-35: the chain's block, or else the database's
read_block(chain, db, hash_or_height) ==
    LET in_chain == IF chain.some THEN chain_block(chain.val, hash_or_height)
                    ELSE None
    IN  IF in_chain.some THEN Some(in_chain.val.block)
        ELSE db_block(db, hash_or_height)

\* lines 39-61: the header of the chain's block, or else the database's header
read_block_header(chain, db, hash_or_height) ==
    LET in_chain == IF chain.some THEN chain_block(chain.val, hash_or_height)
                    ELSE None
    IN  IF in_chain.some THEN Some(in_chain.val.block.header)
        ELSE db_block_header(db, hash_or_height)

\* lines 102-114: the UTXO the chain created, or else the database's
read_utxo(chain, db, outpoint) ==
    LET in_chain == IF chain.some THEN created_utxo(chain.val, outpoint)
                    ELSE None
    IN  IF in_chain.some THEN in_chain
        ELSE LET in_db == db_utxo(db, outpoint)
             IN  IF in_db.some THEN Some(in_db.val.utxo) ELSE None

read_unspent_utxo_IgnoresSpent(chain, db, outpoint) ==
    read_utxo(chain, db, outpoint)

\* lines 118-130: nothing for an outpoint the chain has spent, read_utxo
\* otherwise
read_unspent_utxo(chain, db, outpoint) ==
    IF chain.some /\ outpoint \in chain.val.spent_utxos
    THEN None
    ELSE read_utxo(chain, db, outpoint)

Outpoints == 1 .. MaxOutpoints

\* the chains a caller can hold over a database of tip blocks: the blocks
\* above the finalized tip, and possibly, in a snapshot taken before the last
\* block was finalized, that block too
Chains(tip) ==
    {[lo |-> lo, hi |-> hi, created |-> c, spent_utxos |-> s] :
        lo \in {l \in {tip - 1, tip} : l >= 0},
        hi \in {x \in tip - 1 .. MaxReadHeight : x >= 0},
        c \in SUBSET Outpoints, s \in SUBSET Outpoints}

Queries ==
    {HeightQuery(h) : h \in 0 .. MaxReadHeight + 1}
        \cup {HashQuery(ReadHash(h)) : h \in 0 .. MaxReadHeight + 1}

\* no finalization in progress, no concurrent reader
NoSnapshot ==
    /\ live = [lo |-> 0, hi |-> -1]
    /\ svc = 1
    /\ rpc = "idle"
    /\ rq = None

NoRead ==
    /\ nf = None
    /\ fin = [tip |-> 0, unspent |-> {}]
    /\ rd = None
    /\ NoSnapshot

ReadInit ==
    /\ fin \in {[tip |-> t, unspent |-> u] :
                    t \in 0 .. MaxReadHeight + 1, u \in SUBSET Outpoints}
    /\ nf \in {None} \cup {Some(c) : c \in Chains(fin.tip)}
    /\ rd = None
    /\ NoSnapshot

CallBlock ==
    /\ \E q \in Queries :
        rd' = Some([op |-> "block", arg |-> q, out |-> read_block(nf, fin, q)])
    /\ UNCHANGED <<nf, fin, live, svc, rpc, rq>>

CallBlockHeader ==
    /\ \E q \in Queries :
        rd' = Some([op |-> "block_header", arg |-> q,
                    out |-> read_block_header(nf, fin, q)])
    /\ UNCHANGED <<nf, fin, live, svc, rpc, rq>>

CallUtxo ==
    /\ \E o \in Outpoints :
        rd' = Some([op |-> "utxo", arg |-> o, out |-> read_utxo(nf, fin, o)])
    /\ UNCHANGED <<nf, fin, live, svc, rpc, rq>>

CallUnspentUtxo ==
    /\ \E o \in Outpoints :
        rd' = Some([op |-> "unspent_utxo", arg |-> o,
                    out |-> read_unspent_utxo(nf, fin, o)])
    /\ UNCHANGED <<nf, fin, live, svc, rpc, rq>>

(***************************************************************************)
(* A read that runs while the state service finalizes blocks.  The state   *)
(* service appends blocks to its latest non-finalized chain and finalizes  *)
(* the chain's root in two steps, in the order of FinalizeOrder.  A reader *)
(* clones the latest chain, and later calls read::block with the clone and *)
(* the database as it is by then.  The clone is immutable and the database *)
(* lookup of `or_else` runs only after the chain lookup has failed, so the *)
(* call is one step taken at the time of its database lookup.              *)
(***************************************************************************)
FinalizeOrder_RemoveFirst == <<"pop_root", "commit_finalized">>

\* the two steps of the finalization of a root block, in their order
FinalizeOrder == <<"commit_finalized", "pop_root">>

\* a finalization starts only on a chain that has a root block
HasRoot == live.lo <= live.hi

\* the state service commits a block to its non-finalized chain
CommitBlock ==
    /\ svc = 1
    /\ live.hi < MaxReadHeight
    /\ live' = [live EXCEPT !.hi = @ + 1]
    /\ UNCHANGED <<nf, fin, rd, svc, rpc, rq>>

\* the state service writes the root block to the finalized database
CommitFinalized ==
    /\ FinalizeOrder[svc] = "commit_finalized"
    /\ svc = 1 => HasRoot
    /\ fin' = [fin EXCEPT !.tip = @ + 1]
    /\ svc' = 3 - svc
    /\ UNCHANGED <<nf, rd, live, rpc, rq>>

\* the state service removes the root block from its non-finalized chain
PopRoot ==
    /\ FinalizeOrder[svc] = "pop_root"
    /\ svc = 1 => HasRoot
    /\ live' = [live EXCEPT !.lo = @ + 1]
    /\ svc' = 3 - svc
    /\ UNCHANGED <<nf, fin, rd, rpc, rq>>

\* the reader clones the latest chain and chooses its query; in_best and tip
\* record the best chain and the database as they were at that time
CloneChain ==
    /\ rpc = "idle"
    /\ nf' = IF HasRoot
             THEN Some([lo |-> live.lo, hi |-> live.hi,
                        created |-> {}, spent_utxos |-> {}])
             ELSE None
    /\ \E q \in Queries :
        rq' = Some([arg |-> q, in_best |-> Named(0 .. live.hi, q) # {},
                    tip |-> fin.tip])
    /\ rpc' = "cloned"
    /\ UNCHANGED <<fin, rd, live, svc>>

\* lines 17-35: the reader's call of read::block with its clone
ReadWithClone ==
    /\ rpc = "cloned"
    /\ rd' = Some([op |-> "block", arg |-> rq.val.arg,
                   out |-> read_block(nf, fin, rq.val.arg)])
    /\ rpc' = "done"
    /\ UNCHANGED <<nf, fin, live, svc, rq>>

(***************************************************************************)
(* Specifications.  Spec is a call of komodo_create_partial_chain;         *)
(* SpecRegistry is a sequence of calls of the registry.                    *)
(***************************************************************************)
vars == <<builderVars, regVars, thrVars, codecVars, updVars, readVars>>

\* the builder at rest, for the specification of the registry
NoBuild ==
    /\ BuilderInit
    /\ inp = [start_len |-> 0, start_height |-> 0, block_count |-> 0,
              block_with_nota |-> FALSE,
              tmpl |-> <<TmplCoinbaseTx, TmplFundingTx, TmplNotaTx>>,
              overflow_checks |-> TRUE, prefix |-> "coinbase"]



Init == BuilderInit /\ RegistryInit /\ ThreadsInit /\ NoCodec /\ UpdaterInit
            /\ NoRead

Next ==
    \/ BeginBlock /\ UNCHANGED <<regVars, thrVars, codecVars, updVars, readVars>>
    \/ Panic /\ UNCHANGED <<regVars, thrVars, codecVars, updVars, readVars>>
    \/ FixupAccepts /\ UNCHANGED <<regVars, thrVars, codecVars, updVars, readVars>>
    \/ FixupRejects /\ UNCHANGED <<regVars, thrVars, codecVars, updVars, readVars>>
    \/ EndBlock /\ UNCHANGED <<regVars, thrVars, codecVars, updVars, readVars>>
    \/ Return /\ UNCHANGED <<regVars, thrVars, codecVars, updVars, readVars>>

Spec == Init /\ [][Next]_vars

InitRegistry == NoBuild /\ RegistryInit /\ ThreadsInit /\ NoCodec /\ UpdaterInit
                    /\ NoRead

NextRegistry ==
    \/ CallGetKmdSeason /\ UNCHANGED <<builderVars, thrVars, codecVars, updVars, readVars>>
    \/ CallGetAcSeason /\ UNCHANGED <<builderVars, thrVars, codecVars, updVars, readVars>>
    \/ CallNnNotaryIdForHeight /\ UNCHANGED <<builderVars, thrVars, codecVars, updVars, readVars>>
    \/ CallNnNotaryIdForTimestamp /\ UNCHANGED <<builderVars, thrVars, codecVars, updVars, readVars>>
    \/ CallNotaryIdForHeight /\ UNCHANGED <<builderVars, thrVars, codecVars, updVars, readVars>>
    \/ CallNotaryIdForTimestamp /\ UNCHANGED <<builderVars, thrVars, codecVars, updVars, readVars>>
    \/ CallIsNotaryNodeOutput /\ UNCHANGED <<builderVars, thrVars, codecVars, updVars, readVars>>
    \/ CallIsNotaryPubkey /\ UNCHANGED <<builderVars, thrVars, codecVars, updVars, readVars>>
    \/ CallS6HardforkHeight /\ UNCHANGED <<builderVars, thrVars, codecVars, updVars, readVars>>
    \/ CallS1HardforkHeight /\ UNCHANGED <<builderVars, thrVars, codecVars, updVars, readVars>>

SpecRegistry == InitRegistry /\ [][NextRegistry]_vars

NextThreads ==
    \/ \E t \in Threads : Deref(t) /\ UNCHANGED <<builderVars, codecVars, updVars, readVars>>
    \/ \E t \in Threads : BuildSeason(t) /\ UNCHANGED <<builderVars, codecVars, updVars, readVars>>
    \/ \E t \in Threads : FinishInit(t) /\ UNCHANGED <<builderVars, codecVars, updVars, readVars>>
    \/ \E t \in Threads : Wake(t) /\ UNCHANGED <<builderVars, codecVars, updVars, readVars>>
    \/ \E t \in Threads : LockGuard(t) /\ UNCHANGED <<builderVars, codecVars, updVars, readVars>>
    \/ \E t \in Threads : ReadAndUnlock(t) /\ UNCHANGED <<builderVars, codecVars, updVars, readVars>>

SpecThreads == InitRegistry /\ [][NextThreads]_vars

InitCodec == NoBuild /\ RegistryInit /\ ThreadsInit /\ CodecInit /\ UpdaterInit
                /\ NoRead

NextCodec ==
    \/ Encode /\ UNCHANGED <<builderVars, regVars, thrVars, updVars, readVars>>
    \/ Decode /\ UNCHANGED <<builderVars, regVars, thrVars, updVars, readVars>>

SpecCodec == InitCodec /\ [][NextCodec]_vars

NextUpdater ==
    \/ SendEvent /\ UNCHANGED <<builderVars, regVars, thrVars, codecVars, readVars>>
    \/ CloneSender /\ UNCHANGED <<builderVars, regVars, thrVars, codecVars, readVars>>
    \/ DropSender /\ UNCHANGED <<builderVars, regVars, thrVars, codecVars, readVars>>
    \/ Recv /\ UNCHANGED <<builderVars, regVars, thrVars, codecVars, readVars>>
    \/ LockAddressBook /\ UNCHANGED <<builderVars, regVars, thrVars, codecVars, readVars>>
    \/ UpdateAddressBook /\ UNCHANGED <<builderVars, regVars, thrVars, codecVars, readVars>>
    \/ LockPeerStats /\ UNCHANGED <<builderVars, regVars, thrVars, codecVars, readVars>>
    \/ UpdatePeerStats /\ UNCHANGED <<builderVars, regVars, thrVars, codecVars, readVars>>
    \/ Stop /\ UNCHANGED <<builderVars, regVars, thrVars, codecVars, readVars>>
    \/ OtherLockFirst /\ UNCHANGED <<builderVars, regVars, thrVars, codecVars, readVars>>
    \/ OtherLockSecond /\ UNCHANGED <<builderVars, regVars, thrVars, codecVars, readVars>>
    \/ OtherUnlock /\ UNCHANGED <<builderVars, regVars, thrVars, codecVars, readVars>>

SpecUpdater == InitRegistry /\ [][NextUpdater]_vars

InitRead == NoBuild /\ RegistryInit /\ ThreadsInit /\ NoCodec /\ UpdaterInit
                /\ ReadInit

NextRead ==
    \/ CallBlock /\ UNCHANGED <<builderVars, regVars, thrVars, codecVars, updVars>>
    \/ CallBlockHeader /\ UNCHANGED <<builderVars, regVars, thrVars, codecVars, updVars>>
    \/ CallUtxo /\ UNCHANGED <<builderVars, regVars, thrVars, codecVars, updVars>>
    \/ CallUnspentUtxo /\ UNCHANGED <<builderVars, regVars, thrVars, codecVars, updVars>>

SpecRead == InitRead /\ [][NextRead]_vars

InitSnapshot == NoBuild /\ RegistryInit /\ ThreadsInit /\ NoCodec /\ UpdaterInit
                    /\ NoRead

NextSnapshot ==
    \/ CommitBlock /\ UNCHANGED <<builderVars, regVars, thrVars, codecVars, updVars>>
    \/ CommitFinalized /\ UNCHANGED <<builderVars, regVars, thrVars, codecVars, updVars>>
    \/ PopRoot /\ UNCHANGED <<builderVars, regVars, thrVars, codecVars, updVars>>
    \/ CloneChain /\ UNCHANGED <<builderVars, regVars, thrVars, codecVars, updVars>>
    \/ ReadWithClone /\ UNCHANGED <<builderVars, regVars, thrVars, codecVars, updVars>>

SpecSnapshot == InitSnapshot /\ [][NextSnapshot]_vars

(***************************************************************************)
(* Helpers of the properties.                                              *)
(***************************************************************************)
\* the prefix holds exactly the blocks of heights 0..start_height-1
Aligned == inp.start_len = inp.start_height

\* the vector as it was before the outer loop started
InitialVec ==
    BuildVec(start_blocks, inp.start_height, inp.block_count,
             inp.block_with_nota, inp.tmpl)

\* prefix blocks followed by the returned blocks
Combined == start_blocks \o result

\* the positions whose iteration of the outer loop is over
Finished == {processed[k] : k \in 1..Len(processed)} \ (IF pc = "blocks" \/ pc = "done" THEN {} ELSE {i})

RECURSIVE AcceptedOf(_, _)
AcceptedOf(cs, pos) ==
    IF cs = <<>> THEN <<>>
    ELSE (IF Head(cs).pos = pos /\ Head(cs).out.some THEN <<Head(cs).out.val>> ELSE <<>>)
         \o AcceptedOf(Tail(cs), pos)

RECURSIVE TemplatesOf(_, _)
TemplatesOf(cs, pos) ==
    IF cs = <<>> THEN <<>>
    ELSE (IF Head(cs).pos = pos THEN <<Head(cs).template>> ELSE <<>>)
         \o TemplatesOf(Tail(cs), pos)

LastOutputDecodes(tx) ==
    tx.outputs # <<>> /\ NotaDeserialize(tx.outputs[Len(tx.outputs)].lock_script).ok

LastNota(tx) == NotaDeserialize(tx.outputs[Len(tx.outputs)].lock_script).nota

(***************************************************************************)
(* C1.  Linkage: when the prefix holds exactly the blocks of heights       *)
(* 0..start_height-1, every returned block at height h > 0 has             *)
(* previous_block_hash equal to the hash of the final block at height h-1  *)
(* of prefix+returned, and a returned block at height 0 has the genesis    *)
(* previous block hash.                                                    *)
(***************************************************************************)
C1_Linkage ==
    (pc = "done" /\ Aligned) =>
        \A k \in 1..Len(result) :
            LET h == inp.start_height + k - 1
            IN  IF h > 0
                THEN result[k].header.previous_block_hash = BlockHash(Combined[h])
                ELSE result[k].header.previous_block_hash = GENESIS_PREVIOUS_BLOCK_HASH

C1_Witness ==
    /\ pc = "done" /\ Aligned
    /\ inp.start_height = 2 /\ Len(result) = 3
    /\ result[1].header.previous_block_hash = BlockHash(PrefixBlock(1))
    /\ result[3].header.previous_block_hash = BlockHash(result[2])

(***************************************************************************)
(* C2.  Notarisation target, as claimed: for every block built at height   *)
(* h >= 2 and every transaction at index >= 2 whose last output decodes as *)
(* a back-notarisation, the record handed to the fixup function has target *)
(* height h-2 and target hash equal to the hash of the final form of a     *)
(* block of height h-2 that precedes it in the chain being built.          *)
(***************************************************************************)
C2_NotarisationTarget ==
    \A n \in 1..Len(calls) :
        LET c == calls[n]
        IN  (c.height >= 2 /\ c.index >= 2 /\ LastOutputDecodes(c.template)) =>
                /\ LastOutputDecodes(c.tx)
                /\ LastNota(c.tx).notarised_height = c.height - 2
                /\ \E k \in 1..c.pos :
                      /\ vec[k].height = c.height - 2
                      /\ LastNota(c.tx).notarised_block_hash = BlockHash(vec[k].block)

(***************************************************************************)
(* C2, amended: the same, when the prefix holds exactly the blocks of      *)
(* heights 0..start_height-1; the block of height h-2 is then the block    *)
(* two positions back, in its final (rebuilt or prefix) form.              *)
(***************************************************************************)
C2_NotarisationTargetAligned ==
    Aligned =>
        \A n \in 1..Len(calls) :
            LET c == calls[n]
            IN  (c.height >= 2 /\ c.index >= 2 /\ LastOutputDecodes(c.template)) =>
                    /\ LastOutputDecodes(c.tx)
                    /\ LastNota(c.tx).notarised_height = c.height - 2
                    /\ LastNota(c.tx).notarised_block_hash = BlockHash(vec[c.height - 1].block)
                    /\ vec[c.height - 1].height = c.height - 2

\* the notarisation of the block at height 4 points at the block built at
\* height 2, not at the template it was built from
C2_Witness ==
    /\ Aligned /\ inp.start_height = 2
    /\ \E n \in 1..Len(calls) :
          /\ calls[n].height = 4 /\ calls[n].index = 2
          /\ LastNota(calls[n].tx).notarised_block_hash = BlockHash(vec[3].block)
          /\ BlockHash(vec[3].block) # BlockHash(InitialVec[3].block)

(***************************************************************************)
(* C3.  When the prefix has exactly start_height blocks, exactly           *)
(* block_count blocks are returned, in ascending height order              *)
(* start_height, start_height+1, ..., and none of them is a prefix block.  *)
(***************************************************************************)
C3_ReturnedSuffix ==
    (pc = "done" /\ Aligned) =>
        /\ Len(result) = inp.block_count
        /\ \A k \in 1..Len(result) :
              /\ result[k] = vec[inp.start_len + k].block
              /\ vec[inp.start_len + k].height = inp.start_height + k - 1
              /\ inp.start_len + k - 1 \in Finished
              /\ \A n \in 1..inp.start_len : result[k] # start_blocks[n]
              /\ result[k].transactions # <<>> /\ result[k].transactions[1].inputs[1].kind = "Coinbase"
                    => result[k].transactions[1].inputs[1].height = inp.start_height + k - 1

\* Scenario A: prefix [genesis, block1], start_height 2, count 3
C3_Witness ==
    /\ pc = "done"
    /\ inp.start_len = 2 /\ inp.start_height = 2 /\ inp.block_count = 3
    /\ Len(result) = 3
    /\ vec[5].height = 4

(***************************************************************************)
(* C4.  For every combination of prefix length, start_height and           *)
(* block_count: no prefix block is processed (no call of the fixup         *)
(* function on its transactions) or returned, and every newly appended     *)
(* block is processed and returned.                                        *)
(***************************************************************************)
C4_PrefixUntouched ==
    /\ \A k \in 1..Len(processed) : processed[k] >= inp.start_len
    /\ \A n \in 1..Len(calls) : calls[n].pos >= inp.start_len
    /\ pc = "done" =>
          /\ Len(result) = inp.block_count
          /\ \A k \in 1..Len(result) :
                /\ result[k] = vec[inp.start_len + k].block
                /\ inp.start_len + k - 1 \in Finished

(***************************************************************************)
(* C5.  The built block holds exactly the transactions the fixup function  *)
(* accepted, in their template order, and its merkle root is the root of   *)
(* that final list.                                                        *)
(***************************************************************************)
C5_AcceptedOnly ==
    \A pos \in Finished :
        LET block == vec[pos + 1].block
        IN  /\ TemplatesOf(calls, pos) = InitialVec[pos + 1].block.transactions
            /\ block.transactions = AcceptedOf(calls, pos)
            /\ block.header.merkle_root = MerkleRoot(AcceptedOf(calls, pos))
            /\ (pc = "done" /\ pos >= inp.start_height) =>
                  result[pos + 1 - inp.start_height] = block

\* Scenario C: index 3 of a 6-transaction block is rejected
C5_Witness ==
    /\ pc = "done"
    /\ Len(result) >= 1
    /\ Len(InitialVec[inp.start_height + 1].block.transactions) = 6
    /\ \E n \in 1..Len(calls) :
          calls[n].pos = inp.start_height /\ calls[n].index = 3 /\ ~calls[n].out.some
    /\ Len(result[1].transactions) = 5

(***************************************************************************)
(* C6.  A rejection by the fixup function never fails the batch: whatever  *)
(* the height and the transaction index, the run does not end in a panic   *)
(* once a transaction has been rejected.                                   *)
(***************************************************************************)
C6_RejectionNotFatal ==
    ~(pc = "panic" /\ \E n \in 1..Len(calls) : ~calls[n].out.some)

(***************************************************************************)
(* C7.  In a build that starts at height 0 with an empty prefix, the       *)
(* notarisation fixup leaves the transactions of the blocks at heights 0   *)
(* and 1 as they are in the template (only the coinbase input of index 0   *)
(* is rebuilt), even when the last output decodes as a notarisation,       *)
(* produces no known utxos for them, and does not panic on them.           *)
(***************************************************************************)
C7_NoNotaBelowHeight2 ==
    (inp.start_len = 0 /\ inp.start_height = 0) =>
        /\ \A n \in 1..Len(calls) :
              LET c == calls[n]
              IN  c.height \in {0, 1} =>
                      /\ c.tx.outputs = c.template.outputs
                      /\ c.index >= 1 => c.tx = c.template
                      /\ c.known_utxos = None
        /\ pc = "panic" => height >= 2

C7_Witness ==
    /\ inp.start_len = 0 /\ inp.start_height = 0
    /\ \E n \in 1..Len(calls), m \in 1..Len(calls) :
          /\ calls[n].height = 0 /\ calls[m].height = 1
          /\ calls[n].index >= 2 /\ calls[m].index >= 2
          /\ LastOutputDecodes(calls[n].template) /\ LastOutputDecodes(calls[m].template)
          /\ calls[n].tx = calls[n].template /\ calls[m].tx = calls[m].template

(***************************************************************************)
(* Helpers of the properties of the registry.                              *)
(***************************************************************************)
\* season e (0-based) covers v: season 0 everything up to its bound, season
\* e > 0 the interval (bound[e-1], bound[e]]
InEra(bounds, e, v) ==
    IF e = 0 THEN v <= bounds[1] ELSE bounds[e] < v /\ v <= bounds[e + 1]

ErasOf(bounds, v) == {e \in 0..(Len(bounds) - 1) : InEra(bounds, e, v)}

LastBound(bounds) == bounds[Len(bounds)]

(***************************************************************************)
(* C9.  Partition by height: for every height at or below the last bound,  *)
(* get_kmd_season resolves the one season whose interval holds the height  *)
(* (season 0 up to bound[0], season e the interval (bound[e-1], bound[e]]),*)
(* and exactly one season covers it.                                       *)
(***************************************************************************)
C9_PartitionByHeight ==
    (last.op = "get_kmd_season"
        /\ last.arg.height <= LastBound(nndata.val.KMD_SEASON_HEIGHTS)) =>
        /\ ~last.outcome.panic
        /\ last.outcome.val.ok
        /\ InEra(nndata.val.KMD_SEASON_HEIGHTS, last.outcome.val.val, last.arg.height)
        /\ ErasOf(nndata.val.KMD_SEASON_HEIGHTS, last.arg.height) = {last.outcome.val.val}

\* the bound of season 1 belongs to season 1, the height after it to season 2
C9_Witness ==
    /\ last.op = "get_kmd_season"
    /\ \/ last.arg.height = 1444000 /\ last.outcome = Value(Ok(1))
       \/ last.arg.height = 1444001 /\ last.outcome = Value(Ok(2))

(***************************************************************************)
(* C10.  Past the last bound, as claimed: get_kmd_season and               *)
(* komodo_get_notary_id_for_height return NoSeasonForHeight for every      *)
(* height above the last height bound, get_ac_season and                   *)
(* komodo_get_notary_id_for_timestamp return NoSeasonForTimestamp for      *)
(* every timestamp above the last timestamp bound, and after such an error *)
(* the registry is as usable as before.                                    *)
(***************************************************************************)
PastLastHeight ==
    /\ last.op \in {"get_kmd_season", "komodo_get_notary_id_for_height"}
    /\ last.arg.height > LastBound(nndata.val.KMD_SEASON_HEIGHTS)

PastLastTimestamp ==
    /\ last.op \in {"get_ac_season", "komodo_get_notary_id_for_timestamp"}
    /\ last.arg.timestamp > LastBound(nndata.val.KMD_SEASON_TIMESTAMPS)

UsableAfterNoSeason ==
    (last.op \in {"get_kmd_season", "komodo_get_notary_id_for_height",
                  "get_ac_season", "komodo_get_notary_id_for_timestamp"}
        /\ last.outcome \in {Value(Err("NoSeasonForHeight")),
                             Value(Err("NoSeasonForTimestamp"))})
       => (~poisoned /\ proc = "running" /\ nndata = Some(NNDataNew))

C10_PastLastBoundary ==
    /\ PastLastHeight => last.outcome = Value(Err("NoSeasonForHeight"))
    /\ PastLastTimestamp => last.outcome = Value(Err("NoSeasonForTimestamp"))
    /\ UsableAfterNoSeason

(***************************************************************************)
(* C10, amended: the lookup past the last bound returns NoSeasonForHeight  *)
(* (NoSeasonForTimestamp) whenever the guard of the registry is acquired;  *)
(* when the guard is poisoned the public functions return                  *)
(* NoNotaryPubkeysInitialised.  Either way it is an error, never the last  *)
(* season, and after a NoSeason error the registry is as usable as before: *)
(* not poisoned, the process running, the tables as constructed.           *)
(***************************************************************************)
C10_PastLastBoundaryLocked ==
    /\ PastLastHeight =>
          last.outcome = Value(Err(IF last.locked THEN "NoSeasonForHeight"
                                   ELSE "NoNotaryPubkeysInitialised"))
    /\ PastLastTimestamp =>
          last.outcome = Value(Err(IF last.locked THEN "NoSeasonForTimestamp"
                                   ELSE "NoNotaryPubkeysInitialised"))
    /\ UsableAfterNoSeason

C10_Witness ==
    /\ last.op = "komodo_get_notary_id_for_height"
    /\ last.arg.height = 7113401
    /\ last.outcome = Value(Err("NoSeasonForHeight"))
    /\ ~poisoned /\ proc = "running"

(***************************************************************************)
(* C11.  Notary id: for a height that resolves to a season and any key,    *)
(* NNData::komodo_get_notary_id_for_height returns Some(i) exactly when    *)
(* the key is entry i of the roster of the season that covers the height,  *)
(* None exactly when the key is in no entry of it, and the same result for *)
(* every other height of that season.                                      *)
(***************************************************************************)
C11_NotaryIdIsRosterPosition ==
    (last.op = "NNData::komodo_get_notary_id_for_height"
        /\ ErasOf(nndata.val.KMD_SEASON_HEIGHTS, last.arg.height) # {}) =>
        \A e \in ErasOf(nndata.val.KMD_SEASON_HEIGHTS, last.arg.height) :
            LET roster == nndata.val.notaries_elected[e + 1]
            IN  /\ ~last.outcome.panic
                /\ last.outcome.val.ok
                /\ \A n \in 0..(Len(roster) - 1) :
                      (last.outcome.val.val = Some(n)) <=> (roster[n + 1] = last.arg.pk)
                /\ (last.outcome.val.val = None)
                      <=> (\A n \in 1..Len(roster) : roster[n] # last.arg.pk)
                /\ \A h \in SampleHeights :
                      InEra(nndata.val.KMD_SEASON_HEIGHTS, e, h) =>
                          nn_notary_id_for_height(nndata.val, h, last.arg.pk) = last.outcome.val

\* the key with id 4 in season 0 has id 6 right after the bound of season 0
C11_Witness ==
    /\ last.op = "NNData::komodo_get_notary_id_for_height"
    /\ last.arg.pk = 5
    /\ last.arg.height = 814001
    /\ last.outcome = Value(Ok(Some(6)))
    /\ nn_notary_id_for_height(nndata.val, 814000, 5) = Ok(Some(4))

(***************************************************************************)
(* Helpers of the properties of the boolean checks.                        *)
(***************************************************************************)
\* the script is canonical pay-to-pubkey and its key is in the roster of a
\* season that covers the height
KeyInRoster(h, pk) ==
    \E e \in ErasOf(nndata.val.KMD_SEASON_HEIGHTS, h) :
        \E n \in 1..Len(nndata.val.notaries_elected[e + 1]) :
            nndata.val.notaries_elected[e + 1][n] = pk

IsNotaryScript(h, script) ==
    parse_p2pk(script).some /\ KeyInRoster(h, parse_p2pk(script).val)

(***************************************************************************)
(* C12.  For every height at or below the last bound and every output,     *)
(* komodo_is_notary_node_output returns true exactly when the locking      *)
(* script is canonical pay-to-pubkey and its key is in the roster of the   *)
(* season covering the height, and false, without panic, otherwise.        *)
(***************************************************************************)
C12_NotaryNodeOutput ==
    (last.op = "komodo_is_notary_node_output"
        /\ last.arg.height <= LastBound(nndata.val.KMD_SEASON_HEIGHTS)) =>
        last.outcome = Value(IsNotaryScript(last.arg.height, last.arg.output.lock_script))

\* the same, for the calls that acquired the guard of NNDATA
C12_NotaryNodeOutputLocked ==
    (last.op = "komodo_is_notary_node_output" /\ last.locked
        /\ last.arg.height <= LastBound(nndata.val.KMD_SEASON_HEIGHTS)) =>
        last.outcome = Value(IsNotaryScript(last.arg.height, last.arg.output.lock_script))

(***************************************************************************)
(* C13.  As claimed: for every height above the last bound,                *)
(* komodo_is_notary_node_output (whatever the locking script) and          *)
(* komodo_is_notary_pubkey panic instead of returning a boolean.           *)
(***************************************************************************)
PastLastBool ==
    /\ last.op \in {"komodo_is_notary_node_output", "komodo_is_notary_pubkey"}
    /\ last.arg.height > LastBound(nndata.val.KMD_SEASON_HEIGHTS)

C14_PoisonedIsHard ==
    (last.op # "none" /\ ~last.locked) =>
        IF last.op \in {"komodo_is_notary_node_output", "komodo_is_notary_pubkey"}
        THEN last.outcome.panic
        ELSE last.outcome = Value(Err("NoNotaryPubkeysInitialised"))

(***************************************************************************)
(* C15.  The registry is never mutated after construction: its tables stay *)
(* as constructed, its guard stays usable, and every call returns what the *)
(* same call returns on the registry as constructed, whatever was called   *)
(* before it.                                                              *)
(***************************************************************************)
Fresh == Some(NNDataNew)

\* the outcome of the call `op` with arguments `arg` on the guard `locked`
Answer(op, arg, locked) ==
    CASE op = "get_kmd_season" -> Value(get_kmd_season(locked.val, arg.height))
      [] op = "get_ac_season" -> Value(get_ac_season(locked.val, arg.timestamp))
      [] op = "NNData::komodo_get_notary_id_for_height" ->
            Value(nn_notary_id_for_height(locked.val, arg.height, arg.pk))
      [] op = "NNData::komodo_get_notary_id_for_timestamp" ->
            Value(nn_notary_id_for_timestamp(locked.val, arg.timestamp, arg.pk))
      [] op = "komodo_get_notary_id_for_height" ->
            komodo_get_notary_id_for_height(locked, arg.height, arg.pk)
      [] op = "komodo_get_notary_id_for_timestamp" ->
            komodo_get_notary_id_for_timestamp(locked, arg.timestamp, arg.pk)
      [] op = "komodo_is_notary_node_output" ->
            komodo_is_notary_node_output(locked, arg.height, arg.output)
      [] op = "komodo_is_notary_pubkey" ->
            komodo_is_notary_pubkey(locked, arg.height, arg.pk)
      [] op = "komodo_s6_hardfork_height" -> komodo_s6_hardfork_height(locked)
      [] op = "komodo_s1_hardfork_height" -> komodo_s1_hardfork_height(locked)

C15_NeverMutated ==
    /\ nndata.some => nndata = Fresh
    /\ ~poisoned
    /\ last.op # "none" => last.outcome = Answer(last.op, last.arg, Fresh)

(***************************************************************************)
(* C16.  Initialise once before any use: NNData::new is entered at most    *)
(* once, a thread is past the deref of NNDATA only when the initialisation *)
(* is complete, and whatever a thread reads under the guard is the whole   *)
(* season table, never a missing or partial one.                           *)
(***************************************************************************)
C16_InitialisedOnce ==
    /\ new_runs <= 1
    /\ \A t \in Threads :
          /\ tpc[t] \in {"ready", "locked", "done"} =>
                (once = "complete" /\ new_runs = 1 /\ nndata = Some(NNDataNew))
          /\ seen[t].some => seen[t].val = Some(NNDataNew)
          /\ tpc[t] = "done" => seen[t].some

\* all threads have read the whole table and NNData::new was entered once
C16_Witness ==
    /\ \A t \in Threads : tpc[t] = "done" /\ seen[t] = Some(Some(NNDataNew))
    /\ new_runs = 1

(***************************************************************************)
(* C17.  Round trip of the codec: deserialising the serialisation of a     *)
(* valid record succeeds and yields exactly that record: target height,    *)
(* target hash and trailing payload.                                       *)
(***************************************************************************)
C17_RoundTrip ==
    codec_pc = "decoded" => (codec_dec.ok /\ codec_dec.nota = codec_rec)

\* a record whose height needs more than one byte and that has a payload
C17_Witness ==
    /\ codec_pc = "decoded"
    /\ codec_rec.notarised_height = 65536
    /\ Len(codec_rec.rest) = MaxRest
    /\ codec_dec.nota = codec_rec

(***************************************************************************)
(* C18.  Patch law: when the builder patches the record of a transaction   *)
(* (it then hands known utxos on), the record of the handed transaction    *)
(* differs from the record of the template only in target height and       *)
(* target hash, its trailing payload and the bytes that carry it are the   *)
(* same, and the transaction differs from the template only in the locking *)
(* script of its last output.                                              *)
(***************************************************************************)
Patched(c) == c.index >= 2 /\ c.known_utxos.some

LastScript(tx) == tx.outputs[Len(tx.outputs)].lock_script

C18_PatchLaw ==
    \A n \in 1..Len(calls) :
        LET c == calls[n]
        IN  Patched(c) =>
                /\ LastOutputDecodes(c.template) /\ LastOutputDecodes(c.tx)
                /\ LastNota(c.tx).rest = LastNota(c.template).rest
                /\ LastNota(c.tx) =
                      [LastNota(c.template) EXCEPT
                          !.notarised_height = LastNota(c.tx).notarised_height,
                          !.notarised_block_hash = LastNota(c.tx).notarised_block_hash]
                /\ Len(LastScript(c.tx)) = Len(LastScript(c.template))
                /\ LastScript(c.tx)[1] = LastScript(c.template)[1]
                /\ \A b \in 7..Len(LastScript(c.template)) :
                      LastScript(c.tx)[b] = LastScript(c.template)[b]
                /\ c.tx = [c.template EXCEPT
                              !.outputs[Len(c.template.outputs)].lock_script = LastScript(c.tx)]

\* a patched record with a payload, whose height and hash did change
C18_Witness ==
    \E n \in 1..Len(calls) :
        /\ Patched(calls[n])
        /\ LastNota(calls[n].template).rest # <<>>
        /\ LastNota(calls[n].tx).notarised_height # LastNota(calls[n].template).notarised_height
        /\ LastNota(calls[n].tx).notarised_block_hash # LastNota(calls[n].template).notarised_block_hash

(***************************************************************************)
(* C19.  Block times: every built block of height > 0 has the time of the  *)
(* block before it in the sequence plus 60 seconds, a block built at       *)
(* height 0 keeps its time, the k-th returned block has the time of the    *)
(* last prefix block plus 60*k seconds, and the times of the returned      *)
(* blocks strictly increase.                                               *)
(***************************************************************************)
TimeOf(block) == block.header.time

StepFromPredecessor ==
    \A pos \in Finished :
        IF vec[pos + 1].height > 0
        THEN pos >= 1 /\ TimeOf(vec[pos + 1].block) = TimeOf(vec[pos].block) + 60
        ELSE TimeOf(vec[pos + 1].block) = TimeOf(InitialVec[pos + 1].block)

StepsFromPrefix ==
    (pc = "done" /\ inp.start_len > 0) =>
        \A k \in 1..Len(result) :
            TimeOf(result[k]) = TimeOf(start_blocks[inp.start_len]) + 60 * k

Increasing ==
    pc = "done" =>
        \A k \in 1..(Len(result) - 1) : TimeOf(result[k]) < TimeOf(result[k + 1])

C19_BlockTimes == StepFromPredecessor /\ StepsFromPrefix /\ Increasing

\* the same, for a prefix of exactly start_height blocks
C19_BlockTimesAligned == Aligned => C19_BlockTimes

(***************************************************************************)
(* C20.  The worker of the address book updater stops only when every      *)
(* sender is closed and the channel is empty, every event sent has by then *)
(* been applied to the address book and to the peer statistics, what it    *)
(* returns is the error AllAddressBookUpdaterSendersClosed, and it has not *)
(* stopped and has returned nothing while a sender is open.                *)
(***************************************************************************)
C20_StopsWhenSendersClosed ==
    /\ wpc = "stopped" =>
          /\ senders = 0
          /\ chan = <<>>
          /\ address_book = sent
          /\ peer_stats = sent
          /\ wresult = Some(Err("AllAddressBookUpdaterSendersClosed"))
    /\ wresult.some => (wpc = "stopped" /\ ~wresult.val.ok)
    /\ senders > 0 => (wpc # "stopped" /\ wresult = None)

\* every sender is closed and the worker has stopped, after it applied all
\* the events that were sent
C20_Witness ==
    /\ wpc = "stopped"
    /\ Len(sent) = MaxEvents
    /\ address_book = sent /\ peer_stats = sent
    /\ wresult = Some(Err("AllAddressBookUpdaterSendersClosed"))

(***************************************************************************)
(* The state reads.                                                        *)
(***************************************************************************)
\* the heights the caller's chain holds, and those the database holds
ChainHeights == IF nf.some THEN nf.val.lo .. nf.val.hi ELSE {}

DbHeights == 0 .. fin.tip - 1

HeaderOf(found) == IF found.some THEN Some(found.val.header) ELSE None

\* C21: read::block and read::block_header answer a hash or a height with
\* the block (the header) of the caller's chain or else of the finalized
\* database, with None only when neither holds it (the database alone when
\* no chain is given), and block_header answers with the header of the block
\* that block answers with.
C21_BlockOrHeader ==
    (rd.some /\ rd.val.op \in {"block", "block_header"}) =>
        LET q == rd.val.arg
            in_chain == Named(ChainHeights, q)
            in_db == Named(DbHeights, q)
            Entry(h) == IF rd.val.op = "block" THEN ReadBlock(h)
                        ELSE ReadHeader(h)
        IN  /\ rd.val.out.some <=> (in_chain \cup in_db) # {}
            /\ in_chain # {} => \E h \in in_chain : rd.val.out = Some(Entry(h))
            /\ (in_chain = {} /\ in_db # {}) =>
                    \E h \in in_db : rd.val.out = Some(Entry(h))
            /\ ~nf.some => (rd.val.out.some <=> in_db # {})
            /\ rd.val.op = "block_header" =>
                    rd.val.out = HeaderOf(read_block(nf, fin, q))

\* a header was read by hash from the database under a chain that lacks it
C21_Witness ==
    /\ rd.some /\ rd.val.op = "block_header" /\ rd.val.arg.kind = "Hash"
    /\ nf.some /\ ChainHeights # {}
    /\ Named(ChainHeights, rd.val.arg) = {}
    /\ rd.val.out.some

\* C22: read::utxo answers with a UTXO the caller's chain created whether or
\* not that chain has spent it, and otherwise with the UTXO of the finalized
\* database exactly when the database holds it unspent; read::unspent_utxo
\* answers None for every outpoint of the chain's spent set and otherwise
\* what read::utxo answers, so it never answers with an output the chain has
\* spent.
C22_UtxoReads ==
    rd.some =>
        LET o == rd.val.arg
            created == nf.some /\ o \in nf.val.created
            spent == nf.some /\ o \in nf.val.spent_utxos
        IN  /\ rd.val.op = "utxo" =>
                /\ created => rd.val.out = Some(ReadUtxo(o))
                /\ ~created => (rd.val.out.some <=> o \in fin.unspent)
                /\ rd.val.out.some => rd.val.out.val = ReadUtxo(o)
            /\ rd.val.op = "unspent_utxo" =>
                /\ spent => rd.val.out = None
                /\ ~spent => rd.val.out = read_utxo(nf, fin, o)

\* an outpoint the chain created and spent was read with unspent_utxo
C22_Witness ==
    /\ rd.some /\ rd.val.op = "unspent_utxo"
    /\ nf.some /\ rd.val.arg \in nf.val.created \cap nf.val.spent_utxos
    /\ rd.val.arg \in fin.unspent
    /\ rd.val.out = None

(***************************************************************************)
(* The coinbase fixup.                                                     *)
(***************************************************************************)
\* C23: the transaction at index 0 of a block at height h goes to the fixup
\* function with exactly one input, a coinbase input of height h and
\* sequence u32::MAX, whose data is the genesis coinbase data at height 0 and
\* the template's coinbase data followed by the bytes of the branch tag
\* above it; the other inputs of the template are gone.
C23_CoinbaseFixup ==
    \A k \in 1..Len(calls) :
        calls[k].index = 0 =>
            LET c == calls[k]
                data == IF c.height = 0 THEN GENESIS_COINBASE_DATA
                        ELSE c.template.inputs[1].data \o BranchIdBytes
            IN  /\ Len(c.tx.inputs) = 1
                /\ c.tx.inputs[1] = CoinbaseInput(c.height, data, U32Max)
                /\ c.tx.outputs = c.template.outputs

\* a transaction at index 0 with two inputs and one above height 0 have been
\* through the coinbase fixup
C23_Witness ==
    /\ \E k \in 1..Len(calls) :
            calls[k].index = 0 /\ Len(calls[k].template.inputs) > 1
    /\ \E k \in 1..Len(calls) :
            /\ calls[k].index = 0 /\ calls[k].height > 0
            /\ calls[k].tx.inputs[1].data = TmplCoinbaseData \o BranchIdBytes

\* C24: at every height, height 0 included, a transaction at index 0 whose
\* first input is not a coinbase input stops the build with a panic, so no
\* such transaction ever reaches the fixup function.
C24_UnexpectedCoinbaseShape ==
    /\ (/\ pc = "txs" /\ drained # <<>> /\ tx_index_in_block = 0
        /\ Head(drained).inputs # <<>>
        /\ Head(drained).inputs[1].kind # "Coinbase") => Prepared.panic
    /\ \A k \in 1..Len(calls) :
            calls[k].index = 0 => calls[k].template.inputs[1].kind = "Coinbase"
    /\ pc = "done" =>
            \A k \in 1..Len(processed) :
                InitialVec[processed[k] + 1].block.transactions[1].inputs[1].kind
                    = "Coinbase"

(***************************************************************************)
(* The notarisation fixup and the calls of the fixup function.             *)
(***************************************************************************)
\* C25: a transaction at index >= 2 whose last output does not decode as a
\* notarisation record, or that has no outputs, does not stop the build and
\* goes to the fixup function as it is in the template, without known-UTXO
\* hints.
C25_UndecodableIsNoNota ==
    /\ (/\ pc = "txs" /\ drained # <<>> /\ tx_index_in_block >= 2
        /\ ~LastOutputDecodes(Head(drained))) => ~Prepared.panic
    /\ \A k \in 1..Len(calls) :
            (calls[k].index >= 2 /\ ~LastOutputDecodes(calls[k].template)) =>
                /\ calls[k].tx = calls[k].template
                /\ calls[k].known_utxos = None

\* in a finished build with a block two positions back, a transaction with
\* an undecodable last output and one without outputs went to the fixup
\* function
C25_Witness ==
    /\ pc = "done"
    /\ \E k \in 1..Len(calls) :
            /\ calls[k].index >= 2 /\ calls[k].height >= 2
            /\ calls[k].template.outputs # <<>> /\ ~LastOutputDecodes(calls[k].template)
    /\ \E k \in 1..Len(calls) :
            /\ calls[k].index >= 2 /\ calls[k].height >= 2
            /\ calls[k].template.outputs = <<>>

\* the notarisation record of the transaction of a call was patched: the
\* transaction is at index >= 2, its last output decodes and the block has a
\* block two positions back
RecordPatched(c) == c.index >= 2 /\ LastOutputDecodes(c.template) /\ c.pos >= 2

\* the rewritten transaction at index 1 of the block of a call
RewrittenTx1(c) ==
    LET m == CHOOSE m \in 1..Len(calls) :
                 calls[m].pos = c.pos /\ calls[m].index = 1 /\ calls[m].out.some
    IN  calls[m].out.val

\* C26: a transaction whose notarisation record is patched goes to the fixup
\* function with one known-UTXO hint per input, in the order of the inputs;
\* the hint of an input that spends outpoint index k has the outpoint (hash
\* of the rewritten transaction at index 1 of this block, k) and a UTXO with
\* the value and the locking script of output k of that transaction, the
\* current height, from_coinbase false, an unlocked lock time and
\* tx_index_in_block 1.
C26_KnownUtxoHints ==
    \A n \in 1..Len(calls) :
        LET c == calls[n]
        IN  RecordPatched(c) =>
                /\ c.known_utxos.some
                /\ Len(c.known_utxos.val) = Len(c.template.inputs)
                /\ \E m \in 1..(n - 1) :
                        calls[m].pos = c.pos /\ calls[m].index = 1 /\ calls[m].out.some
                /\ \A j \in 1..Len(c.template.inputs) :
                        LET k == c.template.inputs[j].outpoint.index
                            tx_1 == RewrittenTx1(c)
                        IN  c.known_utxos.val[j] =
                                [outpoint |-> [hash |-> TxHash(tx_1), index |-> k],
                                 utxo |-> [output |-> [value |-> tx_1.outputs[k + 1].value,
                                                       lock_script |->
                                                           tx_1.outputs[k + 1].lock_script],
                                           height |-> c.height,
                                           from_coinbase |-> FALSE,
                                           lock_time |-> "unlocked"],
                                 tx_index_in_block |-> 1]

\* a patched transaction with two inputs that spend different outputs of the
\* rewritten transaction at index 1, which is not the template's
C26_Witness ==
    \E n \in 1..Len(calls) :
        /\ RecordPatched(calls[n]) /\ calls[n].height >= 2
        /\ Len(calls[n].template.inputs) = 2
        /\ calls[n].known_utxos.val[1].outpoint.index
                # calls[n].known_utxos.val[2].outpoint.index
        /\ calls[n].known_utxos.val[1].utxo.output
                # calls[n].known_utxos.val[2].utxo.output
        /\ RewrittenTx1(calls[n]) # TmplFundingTx

\* C27: the fixup function gets known-UTXO hints exactly for the
\* transactions at index >= 2 whose notarisation record was patched, and
\* None at index 0, at index 1 and for every unpatched transaction; it gets
\* the header time of the block before the current one in the combined
\* sequence as parent timestamp, and none exactly when there is no such
\* block.
C27_HintsAndParentTime ==
    \A n \in 1..Len(calls) :
        LET c == calls[n]
        IN  /\ c.known_utxos.some <=> RecordPatched(c)
            /\ c.index < 2 => c.known_utxos = None
            /\ c.parent_time.some <=> c.pos > 0
            /\ c.pos > 0 => c.parent_time = Some(vec[c.pos].block.header.time)

\* one build with a call without parent timestamp, a call with hints, and a
\* call at index >= 2 without hints in a block that has a predecessor
C27_Witness ==
    /\ \E n \in 1..Len(calls) : calls[n].pos = 0 /\ calls[n].parent_time = None
    /\ \E n \in 1..Len(calls) : calls[n].known_utxos.some /\ calls[n].parent_time.some
    /\ \E n \in 1..Len(calls) :
            /\ calls[n].index >= 2 /\ calls[n].pos > 0
            /\ calls[n].known_utxos = None
            /\ calls[n].parent_time = Some(vec[calls[n].pos].block.header.time)

\* the calls made for the block at a position of the vector
CallsAt(pos) == {n \in 1..Len(calls) : calls[n].pos = pos}

\* C28: the fixup function is called once for every transaction of every new
\* block, one call after the other, by ascending height and within a block
\* by ascending index of the template, the index argument being the position
\* of the transaction in the template block; every call gets the value pools
\* and the UTXO set that the call before it left, the first call those of
\* the caller.
C28_CallsInOrder ==
    /\ \A n \in 1..Len(calls) :
            LET c == calls[n]
            IN  /\ c.template = InitialVec[c.pos + 1].block.transactions[c.index + 1]
                /\ c.index = Cardinality({m \in CallsAt(c.pos) : m < n})
    /\ \A pos \in Finished :
            Cardinality(CallsAt(pos)) = Len(InitialVec[pos + 1].block.transactions)
    /\ \A n \in 1..(Len(calls) - 1) :
            /\ calls[n].height <= calls[n + 1].height
            /\ calls[n].pos # calls[n + 1].pos =>
                    /\ calls[n].height < calls[n + 1].height
                    /\ calls[n + 1].index = 0
    /\ pc = "done" =>
            \A pos \in inp.start_len .. (Len(vec) - 1) : pos \in Finished
    /\ calls # <<>> => (calls[1].pools_in = 0 /\ calls[1].utxos_in = {})
    /\ \A n \in 1..(Len(calls) - 1) :
            /\ calls[n + 1].pools_in = calls[n].pools_out
            /\ calls[n + 1].utxos_in = calls[n].utxos_out
    /\ calls # <<>> =>
            /\ chain_value_pools = calls[Len(calls)].pools_out
            /\ utxos = calls[Len(calls)].utxos_out

\* the same for a prefix of exactly start_height blocks
C28_CallsInOrderAligned == Aligned => C28_CallsInOrder

(***************************************************************************)
(* The season table.                                                       *)
(***************************************************************************)
StrictlyIncreasing(s) == \A a, b \in 1..Len(s) : a < b => s[a] < s[b]

\* C29: the season table, once constructed, has as many height bounds,
\* timestamp bounds and rosters as there are seasons (7), 64 keys in every
\* roster, and height bounds and timestamp bounds that strictly increase
\* with the season.
C29_EraInvariants ==
    nndata.some =>
        /\ Len(nndata.val.KMD_SEASON_HEIGHTS) = NUM_KMD_SEASONS
        /\ Len(nndata.val.KMD_SEASON_TIMESTAMPS) = NUM_KMD_SEASONS
        /\ Len(nndata.val.notaries_elected) = NUM_KMD_SEASONS
        /\ NUM_KMD_SEASONS = 7
        /\ \A s \in 1..Len(nndata.val.notaries_elected) :
                Len(nndata.val.notaries_elected[s]) = NUM_KMD_NOTARIES
        /\ NUM_KMD_NOTARIES = 64
        /\ StrictlyIncreasing(nndata.val.KMD_SEASON_HEIGHTS)
        /\ StrictlyIncreasing(nndata.val.KMD_SEASON_TIMESTAMPS)

\* the table has been constructed, season by season, by the one thread that
\* ran the initialiser
C29_Witness ==
    /\ nndata.some /\ once = "complete" /\ new_runs = 1
    /\ nndata.val.notaries_elected = partial
    /\ Len(partial) = 7

(***************************************************************************)
(* Lookup by timestamp.                                                    *)
(***************************************************************************)
\* a season table with other height bounds
OtherHeights(nn) == [nn EXCEPT !.KMD_SEASON_HEIGHTS = <<1, 2, 3, 4, 5, 6, 7>>]

\* C30: get_ac_season resolves season 0 for a timestamp up to the first
\* timestamp bound and season i for a timestamp in (tbound[i-1], tbound[i]],
\* a bound belonging to the season it closes; the season never decreases as
\* the timestamp grows; the result is the same whatever the height bounds
\* are; and komodo_get_notary_id_for_timestamp of NNData returns the position
\* of the key in the roster of that season, or None for a key that is not in
\* it.
C30_LookupByTimestamp ==
    /\ last.op = "get_ac_season" =>
        LET tbound == nndata.val.KMD_SEASON_TIMESTAMPS
            ts == last.arg.timestamp
        IN  /\ ts <= tbound[1] => last.outcome = Value(Ok(0))
            /\ \A e \in 1..(Len(tbound) - 1) :
                    (tbound[e] < ts /\ ts <= tbound[e + 1]) => last.outcome = Value(Ok(e))
            /\ \A e \in 0..(Len(tbound) - 1) :
                    ts = tbound[e + 1] => last.outcome = Value(Ok(e))
            /\ \A later \in SampleTimestamps :
                    (later >= ts /\ last.outcome.val.ok
                        /\ get_ac_season(nndata.val, later).ok) =>
                            last.outcome.val.val <= get_ac_season(nndata.val, later).val
            /\ last.outcome = Value(get_ac_season(OtherHeights(nndata.val), ts))
    /\ (last.op = "NNData::komodo_get_notary_id_for_timestamp"
            /\ ErasOf(nndata.val.KMD_SEASON_TIMESTAMPS, last.arg.timestamp) # {}) =>
        \A e \in ErasOf(nndata.val.KMD_SEASON_TIMESTAMPS, last.arg.timestamp) :
            LET roster == nndata.val.notaries_elected[e + 1]
            IN  /\ ~last.outcome.panic
                /\ last.outcome.val.ok
                /\ \A n \in 0..(Len(roster) - 1) :
                      (last.outcome.val.val = Some(n)) <=> (roster[n + 1] = last.arg.pk)
                /\ (last.outcome.val.val = None)
                      <=> (\A n \in 1..Len(roster) : roster[n] # last.arg.pk)

\* the key with id 4 in season 0 has id 6 right after the timestamp bound of
\* season 0, where the heights would still resolve season 0
C30_Witness ==
    /\ last.op = "NNData::komodo_get_notary_id_for_timestamp"
    /\ last.arg.pk = 5
    /\ last.arg.timestamp = 1525132801
    /\ last.outcome = Value(Ok(Some(6)))
    /\ get_ac_season(nndata.val, 1525132800) = Ok(0)
    /\ get_ac_season(nndata.val, 1525132801) = Ok(1)

(***************************************************************************)
(* The address book updater: order of the updates and the mutexes.         *)
(***************************************************************************)
\* the events the worker has received so far, in the order of their receipt
Received == SubSeq(sent, 1, Len(sent) - Len(chan))

IsPrefix(s, t) == Len(s) <= Len(t) /\ s = SubSeq(t, 1, Len(s))

\* C31: the address book and the peer statistics have each had applied to
\* them, once and in the order of receipt, the events received so far up to
\* at most the one in hand; the address book is updated before the peer
\* statistics for every event, so the address book is ahead of the peer
\* statistics by no event or by one.
C31_EachEventOnceInOrder ==
    /\ IsPrefix(address_book, Received)
    /\ IsPrefix(peer_stats, address_book)
    /\ Len(address_book) - Len(peer_stats) \in {0, 1}
    /\ Len(Received) - Len(address_book) \in {0, 1}
    /\ wpc = "recv" => (address_book = Received /\ peer_stats = Received)
    /\ event.some =>
            /\ event.val = Received[Len(Received)]
            /\ Len(peer_stats) = Len(Received) - 1

\* the second event is applied to the address book and not yet to the peer
\* statistics, while a third waits in the channel
C31_Witness ==
    /\ Len(address_book) = 2 /\ Len(peer_stats) = 1
    /\ address_book = <<sent[1], sent[2]>>
    /\ chan # <<>>

\* the worker waits for a mutex
WorkerWaitsFor ==
    IF wpc = "address_book" THEN "address_book"
    ELSE IF wpc = "peer_stats" THEN "peer_stats"
    ELSE "none"

\* the other thread waits for its second mutex
OtherWaitsFor ==
    IF opc.held # 1 THEN "none"
    ELSE IF opc.order = "address_book_first" THEN "peer_stats" ELSE "address_book"

Holder(mutex) == IF mutex = "address_book" THEN ab_mutex ELSE ps_mutex

\* each of the two threads waits for a mutex that the other one holds
CircularWait ==
    /\ WorkerWaitsFor # "none" /\ Holder(WorkerWaitsFor) = "other"
    /\ OtherWaitsFor # "none" /\ Holder(OtherWaitsFor) = "worker"

\* C32: the worker holds the mutex of the address book only while it applies
\* one event to the address book, the mutex of the peer statistics only
\* while it applies that event to the peer statistics, and never both; it is
\* never in a circular wait with a thread that takes the two mutexes in
\* either order; and the channel never buffers more events than its
\* capacity, the peerset total connection limit.
C32_NoDeadlockBoundedChannel ==
    /\ ab_mutex = "worker" <=> wpc = "address_book_locked"
    /\ ps_mutex = "worker" <=> wpc = "peer_stats_locked"
    /\ ~(ab_mutex = "worker" /\ ps_mutex = "worker")
    /\ (ab_mutex = "worker" \/ ps_mutex = "worker") => event.some
    /\ WorkerWaitsFor # "none" => (ab_mutex # "worker" /\ ps_mutex # "worker")
    /\ ~CircularWait
    /\ Len(chan) <= MaxCapacity

\* the worker waits for the address book while the other thread, which took
\* the address book first, holds both mutexes, and the channel is full
C32_Witness ==
    /\ wpc = "address_book" /\ ab_mutex = "other" /\ ps_mutex = "other"
    /\ opc = [order |-> "address_book_first", held |-> 2]
    /\ Len(chan) = MaxCapacity

LiveHeights == live.lo .. live.hi

\* the height a query names in the best chain 0 .. MaxReadHeight
NamedHeight(hash_or_height) ==
    CHOOSE h \in 0 .. MaxReadHeight : Named({h}, hash_or_height) # {}

\* C33: with the database written before the root leaves the chain, every
\* block of the best chain is in the chain or in the database at every
\* moment, and a reader that clones the chain and later calls read::block
\* gets every block that was in the best chain when it cloned, however many
\* blocks were finalized in between, and gets the block of that height
\* whichever store answers.
C33_SnapshotNeverMisses ==
    /\ DbHeights \cup LiveHeights = 0 .. live.hi
    /\ (rpc = "done" /\ rq.val.in_best)
        => /\ rd.val.out.some
           /\ rd.val.out.val = ReadBlock(NamedHeight(rq.val.arg))
           /\ db_block(fin, rq.val.arg).some
                => db_block(fin, rq.val.arg) = rd.val.out

\* a read answered by the clone for a block that has left the latest chain,
\* after two blocks were finalized since the clone was taken
C33_Witness ==
    /\ rpc = "done"
    /\ rq.val.in_best
    /\ fin.tip >= rq.val.tip + 2
    /\ Named(ChainHeights, rq.val.arg) # {}
    /\ Named(LiveHeights, rq.val.arg) = {}
    /\ rd.val.out = Some(ReadBlock(NamedHeight(rq.val.arg)))

\* the era boundaries at which get_kmd_season changes its answer
EraBoundaries(nn) ==
    {nn.KMD_SEASON_HEIGHTS[k] : k \in 1..Len(nn.KMD_SEASON_HEIGHTS)}

\* C34: on a usable guard komodo_s6_hardfork_height returns the height bound
\* of the era at index 5 of the height table and komodo_s1_hardfork_height
\* returns the height bound of the first era (index 0), and each returned
\* height is one of the era boundaries of the table.
C34_HardforkHeights ==
    /\ (last.op = "komodo_s6_hardfork_height" /\ last.locked) =>
            /\ last.outcome = Value(Ok(nndata.val.KMD_SEASON_HEIGHTS[5 + 1]))
            /\ last.outcome.val.val \in EraBoundaries(nndata.val)
    /\ (last.op = "komodo_s1_hardfork_height" /\ last.locked) =>
            /\ last.outcome = Value(Ok(nndata.val.KMD_SEASON_HEIGHTS[0 + 1]))
            /\ last.outcome.val.val \in EraBoundaries(nndata.val)

(***************************************************************************)
(* The predecessor of a block above height 0.                              *)
(***************************************************************************)
\* C35: whenever the loop works on a block whose recorded height is above 0,
\* the block is not the first of the vector and its predecessor is at hand,
\* so the build never stops at the assertion "could not fix
\* previous_block_hash" (line 174): a stopped build stopped at a transaction.
C35_PredecessorExists ==
    /\ (pc \in {"txs", "panic"} /\ height > 0) =>
            /\ i > 0
            /\ previous_block.some
    /\ pc = "panic" => (drained # <<>> /\ Prepared.panic)

\* a block above height 0 of a vector whose prefix is not start_height long
\* has been linked to its predecessor
C35_Witness ==
    /\ pc = "blocks"
    /\ i > 0
    /\ height > 0
    /\ inp.start_len # inp.start_height
    /\ previous_block.some
    /\ vec[i].block.header.previous_block_hash = BlockHash(previous_block.val)

(***************************************************************************)
(* The cached transaction at index 1.                                      *)
(***************************************************************************)
\* what the fixup function returned for index 1 of the block at a position,
\* None before that call
ReturnedForIndex1(pos) ==
    LET at1 == {n \in CallsAt(pos) : calls[n].index = 1}
    IN  IF at1 = {} THEN None ELSE calls[CHOOSE n \in at1 : TRUE].out

\* C36: while a block is worked on, tx_1_fixed is None until the fixup
\* function has accepted the transaction at index 1 of this block and is from
\* then on the transaction the function returned; every known-UTXO hint has
\* the hash and an output of the transaction returned for index 1 of the
\* block of the hint, and the hash of no transaction of an earlier block.
C36_CachePerBlock ==
    /\ pc \in {"txs", "panic"} => tx_1_fixed = ReturnedForIndex1(i)
    /\ \A n \in 1..Len(calls) :
        LET c == calls[n]
        IN  c.known_utxos.some =>
                /\ ReturnedForIndex1(c.pos).some
                /\ \A j \in 1..Len(c.known_utxos.val) :
                    LET hint == c.known_utxos.val[j]
                        tx_1 == ReturnedForIndex1(c.pos).val
                    IN  /\ hint.outpoint.hash = TxHash(tx_1)
                        /\ hint.utxo.output = tx_1.outputs[hint.outpoint.index + 1]
                        /\ \A m \in 1..Len(calls) :
                            (calls[m].pos < c.pos /\ calls[m].out.some)
                                => hint.outpoint.hash # TxHash(calls[m].out.val)

\* the second block with hints in one build: the block before it cached a
\* transaction of its own, and the cache holds a rewritten transaction that
\* is neither that one nor the template
C36_Witness ==
    /\ pc = "txs"
    /\ tx_1_fixed.some
    /\ tx_1_fixed.val # TmplFundingTx
    /\ ReturnedForIndex1(i - 1).some
    /\ ReturnedForIndex1(i - 1) # tx_1_fixed
    /\ \E n \in CallsAt(i - 1) : calls[n].known_utxos.some
    /\ \E n \in CallsAt(i) : calls[n].known_utxos.some

(***************************************************************************)
(* What an iteration of the outer loop changes.                            *)
(***************************************************************************)
\* a step changes at most the entry of the vector at the index of the loop,
\* and of that entry only the block; the arguments of the caller, the prefix
\* blocks among them, stay as they are, and the loop never goes back
FrameStep ==
    /\ Len(vec') = Len(vec)
    /\ \A k \in 1..Len(vec) :
            /\ k # i + 1 => vec'[k] = vec[k]
            /\ vec'[k].height = vec[k].height
    /\ inp' = inp
    /\ i' >= i

\* the two predecessors are copies of the entries one and two positions
\* back; an entry that the loop has not visited is as it was pushed; the
\* previous hash of a finished block and the target hash of a patched record
\* are the hashes of the entries one and two positions back as they are now,
\* and the returned blocks are the entries from start_height on
HashesStable ==
    /\ pc \in {"txs", "panic"} =>
            /\ i > 0 => previous_block = Some(vec[i].block)
            /\ i > 1 => previous_block_2 = Some(vec[i - 1].block)
    /\ \A k \in 1..Len(vec) :
            (\A n \in 1..Len(processed) : processed[n] # k - 1) => vec[k] = InitialVec[k]
    /\ \A pos \in Finished :
            vec[pos + 1].height > 0 =>
                vec[pos + 1].block.header.previous_block_hash = BlockHash(vec[pos].block)
    /\ \A n \in 1..Len(calls) :
            RecordPatched(calls[n]) =>
                LastNota(calls[n].tx).notarised_block_hash
                    = BlockHash(vec[calls[n].pos - 1].block)
    /\ pc = "done" =>
            \A k \in 1..Len(result) : result[k] = vec[inp.start_height + k].block

\* C37: an iteration changes only the block at its own position: the copies
\* of the two blocks before it, the entries the loop does not visit and the
\* caller's prefix blocks stay as they are, and a finished block is never
\* changed again, so the hash that the next block records as previous hash
\* and the hash that the block two positions on records in its notarisation
\* are the hashes of the block as it is returned.
C37_OnlyCurrentBlockChanges == [][FrameStep]_vars /\ []HashesStable

\* a returned chain of three built blocks after a prefix that was left as it
\* was: the third block notarises the first, the second links to the first,
\* and the first is not the template it was built from
C37_Witness ==
    /\ pc = "done"
    /\ inp.start_len = inp.start_height /\ inp.start_height > 0
    /\ Len(result) = 3
    /\ \A k \in 1..inp.start_len : vec[k].block = start_blocks[k]
    /\ result[1] # InitialVec[inp.start_height + 1].block
    /\ result[2].header.previous_block_hash = BlockHash(result[1])
    /\ \E n \in 1..Len(calls) :
            /\ calls[n].pos = inp.start_height + 2
            /\ RecordPatched(calls[n])
            /\ LastNota(calls[n].tx).notarised_block_hash = BlockHash(result[1])

(***************************************************************************)
(* Calls of the public functions by several threads.  A call locks NNDATA  *)
(* (`if let Ok(nndata) = NNDATA.lock()`, lines 641, 651, 663, 676, 686,    *)
(* 695), which blocks while another thread holds the guard and also takes  *)
(* the mutex when it is poisoned (the guard is then inside the PoisonError *)
(* of the scrutinee), does one lookup, and leaves: by returning, which     *)
(* drops the guard, or by a panic, which drops the guard while it unwinds  *)
(* and poisons the mutex, or aborts the process in a build that does not   *)
(* unwind.                                                                 *)
(***************************************************************************)
\* how many calls a thread makes
MaxCalls == 2

\* a faulty Acquisitions: the function locks NNDATA again under its guard
Acquisitions_Nested(op) == 2

\* how often a public function calls NNDATA.lock(): once, at its top; the
\* methods of NNData that it calls under the guard take `&self`
Acquisitions(op) == 1

\* the arguments of the calls: a height and a timestamp of the first era and
\* the ones just past the last era, a key of no roster and a key of a roster
CallHeights == {0, NNDataNew.KMD_SEASON_HEIGHTS[NUM_KMD_SEASONS] + 1}

CallTimestamps == {0, NNDataNew.KMD_SEASON_TIMESTAMPS[NUM_KMD_SEASONS] + 1}

CallKeys == {0, NOTARIES_ELECTED_SOURCE[1][1]}

CallOutputs == {TxOutput(1, P2pkScript(k)) : k \in CallKeys} \cup {TxOutput(0, TmplNotaScript)}

PublicCalls ==
    {[op |-> "komodo_get_notary_id_for_height", arg |-> [height |-> h, pk |-> pk]] :
        h \in CallHeights, pk \in CallKeys}
    \cup {[op |-> "komodo_get_notary_id_for_timestamp",
           arg |-> [timestamp |-> ts, pk |-> pk]] :
        ts \in CallTimestamps, pk \in CallKeys}
    \cup {[op |-> "komodo_is_notary_node_output", arg |-> [height |-> h, output |-> o]] :
        h \in CallHeights, o \in CallOutputs}
    \cup {[op |-> "komodo_is_notary_pubkey", arg |-> [height |-> h, pk |-> pk]] :
        h \in CallHeights, pk \in CallKeys}
    \cup {[op |-> "komodo_s6_hardfork_height", arg |-> [none |-> TRUE]],
          [op |-> "komodo_s1_hardfork_height", arg |-> [none |-> TRUE]]}

\* the way out of a call: a value, an error, or a hard failure
WayOut(op, outcome) ==
    IF outcome.panic THEN "hard failure"
    ELSE IF op \in {"komodo_is_notary_node_output", "komodo_is_notary_pubkey"}
         THEN "value"
         ELSE IF outcome.val.ok THEN "value" ELSE "error"

\* the ways out that the calls have on the result `locked` of NNDATA.lock()
WaysOutOn(locked) ==
    {[op |-> c.op, out |-> WayOut(c.op, Answer(c.op, c.arg, locked))] : c \in PublicCalls}

\* the same, on the registry as constructed and on the poisoned mutex
WaysOutFresh == WaysOutOn(Fresh)

WaysOutPoisoned == WaysOutOn(None)

WaysOut(locked) ==
    IF locked = Fresh THEN WaysOutFresh
    ELSE IF locked = None THEN WaysOutPoisoned
    ELSE WaysOutOn(locked)

\* a thread calls a public function
BeginCall(t) ==
    /\ proc = "running"
    /\ cpc[t] \in {"idle", "returned"}
    /\ ccalls[t] < MaxCalls
    /\ ccalls' = [ccalls EXCEPT ![t] = @ + 1]
    /\ cpc' = [cpc EXCEPT ![t] = "lock"]
    /\ UNCHANGED <<nndata, poisoned, once, proc, last, tpc, partial, new_runs, holder,
                   seen, cres>>

\* NNDATA.lock() of the call returns: the guard was free.  The first
\* access initialises the static.
AcquireGuard(t) ==
    /\ proc = "running"
    /\ cpc[t] = "lock"
    /\ holder = 0
    /\ holder' = t
    /\ nndata' = Some(Static)
    /\ once' = "complete"
    /\ LET locked == Lock
       IN  \E w \in WaysOut(locked) :
            /\ cres' = [cres EXCEPT ![t] = w.out]
            /\ cpc' = [cpc EXCEPT ![t] =
                            IF Acquisitions(w.op) > 1 THEN "lock" ELSE "held"]
    /\ UNCHANGED <<poisoned, proc, last, tpc, partial, new_runs, seen, ccalls>>

\* the lookup of the call and its way out
LeaveCall(t) ==
    /\ proc = "running"
    /\ cpc[t] = "held"
    /\ \E unwinds \in BOOLEAN :
        IF cres[t] = "hard failure"
        THEN IF unwinds
             THEN /\ poisoned' = TRUE
                  /\ holder' = 0
                  /\ cpc' = [cpc EXCEPT ![t] = "panicked"]
                  /\ proc' = proc
             ELSE /\ proc' = "aborted"
                  /\ UNCHANGED <<poisoned, holder, cpc>>
        ELSE /\ holder' = 0
             /\ cpc' = [cpc EXCEPT ![t] = "returned"]
             /\ UNCHANGED <<poisoned, proc>>
    /\ UNCHANGED <<nndata, once, last, tpc, partial, new_runs, seen, cres, ccalls>>

InitCalls == InitRegistry

NextCalls ==
    \/ \E t \in Callers : BeginCall(t) /\ UNCHANGED <<builderVars, codecVars, updVars, readVars>>
    \/ \E t \in Callers : AcquireGuard(t) /\ UNCHANGED <<builderVars, codecVars, updVars, readVars>>
    \/ \E t \in Callers : LeaveCall(t) /\ UNCHANGED <<builderVars, codecVars, updVars, readVars>>

\* a thread that can take the guard or leave its call eventually does: the
\* scheduler runs every runnable thread, and a thread makes MaxCalls calls
CallsFairness ==
    \A t \in Callers :
        /\ WF_vars(AcquireGuard(t) /\ UNCHANGED <<builderVars, codecVars, updVars, readVars>>)
        /\ WF_vars(LeaveCall(t) /\ UNCHANGED <<builderVars, codecVars, updVars, readVars>>)

SpecCalls == InitCalls /\ [][NextCalls]_vars /\ CallsFairness

\* the guard is held by a thread inside its lookup and by no other thread,
\* and no thread waits for the guard that it holds itself
GuardDiscipline ==
    \A t \in Callers :
        /\ holder = t => cpc[t] = "held"
        /\ cpc[t] = "held" => holder = t
        /\ cpc[t] = "lock" => holder # t

\* C38: no call of a public function locks NNDATA while it holds the guard,
\* the guard is held for the one lookup of the call, it is free again after
\* every way out of a call (a value, an error, a panic that unwinds), and
\* every call that several threads make concurrently comes to its end, unless
\* a hard failure has ended the process.
C38_GuardReleasedCallsComplete ==
    /\ []GuardDiscipline
    /\ \A t \in Callers :
        (cpc[t] = "lock") ~> (cpc[t] \in {"returned", "panicked"} \/ proc = "aborted")

\* one thread has left its call by a panic, another has made two calls and
\* has left the second with an error, and the guard is free
C38_Witness ==
    \E t1, t2 \in Callers :
        /\ cpc[t1] = "panicked"
        /\ cpc[t2] = "returned" /\ cres[t2] = "error" /\ ccalls[t2] = 2
        /\ holder = 0
        /\ poisoned

=============================================================================
